---- MODULE Spec2Model ----
(***************************************************************************)
(* A model of the Firefly III CSV importer (src/firefly_importer.py).      *)
(*                                                                         *)
(* Texts (CSV cells, account names, descriptions, key strings) are         *)
(* sequences of one-character strings, so that stripping, parsing,         *)
(* formatting and concatenation are computed the way the code computes     *)
(* them.  Python's None is the one-element sequence None, which no text    *)
(* equals (its element is not a single character).                         *)
(***************************************************************************)
EXTENDS Integers, Sequences, FiniteSets, TLC

\* ------------------------------------------------------------------ texts

None == <<"<None>">>

Space == " "

VT == ""  \* U+000B vertical tab

FS == ""  \* U+001C file separator

GS == ""  \* U+001D group separator

RS == ""  \* U+001E record separator

US == ""  \* U+001F unit separator

NEL == ""  \* U+0085 next line

NBSP == " "  \* U+00A0 no-break space

OghamSpace == " "  \* U+1680 ogham space mark

\* the characters str.isspace() accepts, as far as a string of this language
\* can hold them (the spaces from U+2000 on cannot be written here)
Whitespace ==
  {Space, "\t", "\n", "\r", "\f", VT, FS, GS, RS, US, NEL, NBSP, OghamSpace}

\* bool(x) for an Optional[str]: None and "" are falsy
Truthy(t) == t # None /\ t # <<>>

\* the least number of a non-empty set of numbers
MinOf(S) == CHOOSE i \in S : \A j \in S : i <= j

\* the text read from its end to its start (\o <<>> has the model checker
\* hold a text built character by character as a tuple)
Reverse(t) == [i \in 1..Len(t) |-> t[Len(t) + 1 - i]] \o <<>>

\* the text from its first character that is not one of chars
LStripOf(t, chars) ==
  IF \A i \in 1..Len(t) : t[i] \in chars THEN <<>>
  ELSE SubSeq(t, MinOf({i \in 1..Len(t) : t[i] \notin chars}), Len(t))

\* the text up to its last character that is not one of chars
RStripOf(t, chars) == Reverse(LStripOf(Reverse(t), chars))

LStrip(t) == LStripOf(t, Whitespace)

RStrip(t) == RStripOf(t, Whitespace)

\* str.strip()
Strip(t) == RStrip(LStrip(t))

\* the decimal digits of Unicode (category Nd) that a string of this language
\* can hold, one row per script, each from its zero to its nine
DigitRows ==
  <<<<"0", "1", "2", "3", "4", "5", "6", "7", "8", "9">>,
    <<"۰", "۱", "۲", "۳", "۴", "۵", "۶", "۷", "۸", "۹">>,
    <<"߀", "߁", "߂", "߃", "߄", "߅", "߆", "߇", "߈", "߉">>,
    <<"০", "১", "২", "৩", "৪", "৫", "৬", "৭", "৮", "৯">>,
    <<"૦", "૧", "૨", "૩", "૪", "૫", "૬", "૭", "૮", "૯">>,
    <<"௦", "௧", "௨", "௩", "௪", "௫", "௬", "௭", "௮", "௯">>,
    <<"೦", "೧", "೨", "೩", "೪", "೫", "೬", "೭", "೮", "೯">>,
    <<"෦", "෧", "෨", "෩", "෪", "෫", "෬", "෭", "෮", "෯">>,
    <<"໐", "໑", "໒", "໓", "໔", "໕", "໖", "໗", "໘", "໙">>,
    <<"႐", "႑", "႒", "႓", "႔", "႕", "႖", "႗", "႘", "႙">>,
    <<"០", "១", "២", "៣", "៤", "៥", "៦", "៧", "៨", "៩">>,
    <<"᧐", "᧑", "᧒", "᧓", "᧔", "᧕", "᧖", "᧗", "᧘", "᧙">>,
    <<"᪀", "᪁", "᪂", "᪃", "᪄", "᪅", "᪆", "᪇", "᪈", "᪉">>,
    <<"᪐", "᪑", "᪒", "᪓", "᪔", "᪕", "᪖", "᪗", "᪘", "᪙">>,
    <<"᮰", "᮱", "᮲", "᮳", "᮴", "᮵", "᮶", "᮷", "᮸", "᮹">>,
    <<"꣐", "꣑", "꣒", "꣓", "꣔", "꣕", "꣖", "꣗", "꣘", "꣙">>,
    <<"꧐", "꧑", "꧒", "꧓", "꧔", "꧕", "꧖", "꧗", "꧘", "꧙">>,
    <<"꧰", "꧱", "꧲", "꧳", "꧴", "꧵", "꧶", "꧷", "꧸", "꧹">>,
    <<"꯰", "꯱", "꯲", "꯳", "꯴", "꯵", "꯶", "꯷", "꯸", "꯹">>>>

DigitChars == DigitRows[1]

\* Py_UNICODE_TODECIMAL: the value of each decimal digit
DigitValue ==
  [c \in UNION {{DigitRows[r][i] : i \in 1..10} : r \in 1..Len(DigitRows)} |->
     (CHOOSE i \in 1..10 : \E r \in 1..Len(DigitRows) : DigitRows[r][i] = c) - 1]

\* a decimal digit of any script, as float(), int() and the \d of a pattern
\* accept it
IsDigit(c) == c \in DOMAIN DigitValue

DigitVal(c) == DigitValue[c]

AllDigits(t) == \A i \in 1..Len(t) : IsDigit(t[i])

\* the digits of a run as ASCII digits
AsciiDigits(t) == [i \in 1..Len(t) |-> DigitChars[DigitVal(t[i]) + 1]] \o <<>>

RECURSIVE NatOfText(_)
\* the value of a run of decimal digits (0 for the empty run)
NatOfText(t) ==
  IF t = <<>> THEN 0
  ELSE 10 * NatOfText(SubSeq(t, 1, Len(t) - 1)) + DigitVal(t[Len(t)])

RECURSIVE TextOfNat(_)
\* str(n) for n >= 0
TextOfNat(n) ==
  IF n < 10 THEN <<DigitChars[n + 1]>>
  ELSE TextOfNat(n \div 10) \o <<DigitChars[(n % 10) + 1]>>

\* n zero-padded to two digits (%m, %d)
Pad2(n) == IF n < 10 THEN <<"0">> \o TextOfNat(n) ELSE TextOfNat(n)

\* the position of the first c in t, or 0
IndexOf(t, c) ==
  IF \E i \in 1..Len(t) : t[i] = c
  THEN MinOf({i \in 1..Len(t) : t[i] = c})
  ELSE 0

LowerChars ==
  <<"a", "b", "c", "d", "e", "f", "g", "h", "i", "j", "k", "l", "m",
    "n", "o", "p", "q", "r", "s", "t", "u", "v", "w", "x", "y", "z">>

UpperChars ==
  <<"A", "B", "C", "D", "E", "F", "G", "H", "I", "J", "K", "L", "M",
    "N", "O", "P", "Q", "R", "S", "T", "U", "V", "W", "X", "Y", "Z">>

\* the lower-case form of an ASCII letter; every other character is left as
\* it is
LowerChar(c) ==
  IF \E i \in 1..26 : UpperChars[i] = c
  THEN LowerChars[CHOOSE i \in 1..26 : UpperChars[i] = c]
  ELSE c

\* the lower-case form of a text in which the letters that have one are ASCII
\* letters: the C library's case-insensitive comparison of "inf" and "nan",
\* and str.lower() of a name the C locale has (no other character a string of
\* this language can hold becomes an ASCII letter in lower case)
Lower(t) == [i \in 1..Len(t) |-> LowerChar(t[i])] \o <<>>

\* The letters beyond ASCII that a pattern compiled with re.IGNORECASE takes
\* for one another: the character FoldFrom[i] matches, and is matched by,
\* FoldTo[i] and every character with the same FoldTo (the characters a
\* string of this language can hold).
FoldFrom ==
  <<"Μ", "μ", "À", "Á", "Â", "Ã", "Ä", "Å", "Æ", "Ç", "È", "É",
    "Ê", "Ë", "Ì", "Í", "Î", "Ï", "Ð", "Ñ", "Ò", "Ó", "Ô", "Õ",
    "Ö", "Ø", "Ù", "Ú", "Û", "Ü", "Ý", "Þ", "ẞ", "Ƃ", "Ƅ", "Ƈ",
    "Ƌ", "Ǝ", "Ƒ", "Ƕ", "Ƙ", "Ơ", "Ƣ", "Ƥ", "Ʀ", "Ƨ", "Ʃ", "Ƭ",
    "Ʈ", "Ư", "Ʊ", "Ʋ", "Ƴ", "Ƶ", "Ʒ", "Ƹ", "Ƽ", "Ƿ", "Ǆ", "ǅ",
    "Ǉ", "ǈ", "Ǌ", "ǋ", "Ǎ", "Ǐ", "Ǒ", "Ǔ", "Ǖ", "Ǘ", "Ǚ", "Ǜ",
    "Ǟ", "Ǡ", "Ǣ", "Ǥ", "Ǧ", "Ǩ", "Ǫ", "Ǭ", "Ǯ", "Ǳ", "ǲ", "Ǵ",
    "Ǹ", "Ǻ", "Ǽ", "Ǿ", "Ʂ", "Ʇ", "Ʝ", "Ʞ", "Ά", "Έ", "Ή", "Ί",
    "Ό", "Ύ", "Ώ", "ΐ", "Α", "Β", "ϐ", "Γ", "Δ", "Ε", "ϵ", "Ζ",
    "Η", "Θ", "ϑ", "ϴ", "Ι", "ι", "Κ", "ϰ", "Λ", "Ν", "Ξ", "Ο",
    "Π", "ϖ", "Ρ", "ϱ", "Σ", "σ", "Τ", "Υ", "Φ", "ϕ", "Χ", "Ψ",
    "Ω", "Ϊ", "Ϋ", "ΰ", "Ϗ", "Ϙ", "Ϛ", "Ϝ", "Ϟ", "Ϡ", "Ϣ", "Ϥ",
    "Ϧ", "Ϩ", "Ϫ", "Ϭ", "Ϯ", "Ϲ", "Ϸ", "Ϻ", "Ҁ", "Ҋ", "Ҍ", "Ҏ",
    "Ґ", "Ғ", "Ҕ", "Җ", "Ҙ", "Қ", "Ҝ", "Ҟ", "Ҡ", "Ң", "Ҥ", "Ҧ",
    "Ҩ", "Ҫ", "Ҭ", "Ү", "Ұ", "Ҳ", "Ҵ", "Ҷ", "Ҹ", "Һ", "Ҽ", "Ҿ",
    "Ӏ", "Ӂ", "Ӄ", "Ӆ", "Ӈ", "Ӊ", "Ӌ", "Ӎ", "Ӑ", "Ӓ", "Ӕ", "Ӗ",
    "Ә", "Ӛ", "Ӝ", "Ӟ", "Ӡ", "Ӣ", "Ӥ", "Ӧ", "Ө", "Ӫ", "Ӭ", "Ӯ",
    "Ӱ", "Ӳ", "Ӵ", "Ӷ", "Ӹ", "Ӻ", "Ӽ", "Ӿ", "Ა", "Ბ", "Გ", "Დ",
    "Ე", "Ვ", "Ზ", "Თ", "Ი", "Კ", "Ლ", "Მ", "Ნ", "Ო", "Პ", "Ჟ",
    "Რ", "Ს", "Ტ", "Უ", "Ფ", "Ქ", "Ღ", "Ყ", "Შ", "Ჩ", "Ც", "Ძ",
    "Წ", "Ჭ", "Ხ", "Ჯ", "Ჰ", "Ჱ", "Ჲ", "Ჳ", "Ჴ", "Ჵ", "Ჶ", "Ჷ",
    "Ჸ", "Ჹ", "Ჺ", "Ჽ", "Ჾ", "Ჿ", "Ꮀ", "Ꮁ", "Ꮂ", "Ꮃ", "Ꮄ", "Ꮅ",
    "Ꮆ", "Ꮇ", "Ꮈ", "Ꮉ", "Ꮊ", "Ꮋ", "Ꮌ", "Ꮍ", "Ꮎ", "Ꮏ", "Ꮐ", "Ꮑ",
    "Ꮒ", "Ꮓ", "Ꮔ", "Ꮕ", "Ꮖ", "Ꮗ", "Ꮘ", "Ꮙ", "Ꮚ", "Ꮛ", "Ꮜ", "Ꮝ",
    "Ꮞ", "Ꮟ", "Ꮠ", "Ꮡ", "Ꮢ", "Ꮣ", "Ꮤ", "Ꮥ", "Ꮦ", "Ꮧ", "Ꮨ", "Ꮩ",
    "Ꮪ", "Ꮫ", "Ꮬ", "Ꮭ", "Ꮮ", "Ꮯ", "Ꮰ", "Ꮱ", "Ꮲ", "Ꮳ", "Ꮴ", "Ꮵ",
    "Ꮶ", "Ꮷ", "Ꮸ", "Ꮹ", "Ꮺ", "Ꮻ", "Ꮼ", "Ꮽ", "Ꮾ", "Ꮿ", "Ᏸ", "Ᏹ",
    "Ᏺ", "Ᏻ", "Ᏼ", "Ᏽ", "ᲅ", "Ᶎ", "Ẁ", "Ẃ", "Ẅ", "Ẇ", "Ẉ", "Ẋ",
    "Ẍ", "Ẏ", "Ẑ", "Ẓ", "Ẕ", "Ạ", "Ả", "Ấ", "Ầ", "Ẩ", "Ẫ", "Ậ",
    "Ắ", "Ằ", "Ẳ", "Ẵ", "Ặ", "Ẹ", "Ẻ", "Ẽ", "Ế", "Ề", "Ể", "Ễ",
    "Ệ", "Ỉ", "Ị", "Ọ", "Ỏ", "Ố", "Ồ", "Ổ", "Ỗ", "Ộ", "Ớ", "Ờ",
    "Ở", "Ỡ", "Ợ", "Ụ", "Ủ", "Ứ", "Ừ", "Ử", "Ữ", "Ự", "Ỳ", "Ỵ",
    "Ỷ", "Ỹ", "Ỻ", "Ỽ", "Ỿ", "ᾈ", "ᾉ", "ᾊ", "ᾋ", "ᾌ", "ᾍ", "ᾎ",
    "ᾏ", "ᾘ", "ᾙ", "ᾚ", "ᾛ", "ᾜ", "ᾝ", "ᾞ", "ᾟ", "ᾨ", "ᾩ", "ᾪ",
    "ᾫ", "ᾬ", "ᾭ", "ᾮ", "ᾯ", "Ᾰ", "Ᾱ", "ᾼ", "ῌ", "Ῐ", "Ῑ", "Ῠ",
    "Ῡ", "Ῥ", "ῼ", "Ↄ", "Ⓐ", "Ⓑ", "Ⓒ", "Ⓓ", "Ⓔ", "Ⓕ", "Ⓖ", "Ⓗ",
    "Ⓘ", "Ⓙ", "Ⓚ", "Ⓛ", "Ⓜ", "Ⓝ", "Ⓞ", "Ⓟ", "Ⓠ", "Ⓡ", "Ⓢ", "Ⓣ",
    "Ⓤ", "Ⓥ", "Ⓦ", "Ⓧ", "Ⓨ", "Ⓩ", "Ⲁ", "Ⲃ", "Ⲅ", "Ⲇ", "Ⲉ", "Ⲋ",
    "Ⲍ", "Ⲏ", "Ⲑ", "Ⲓ", "Ⲕ", "Ⲗ", "Ⲙ", "Ⲛ", "Ⲝ", "Ⲟ", "Ⲡ", "Ⲣ",
    "Ⲥ", "Ⲧ", "Ⲩ", "Ⲫ", "Ⲭ", "Ⲯ", "Ⲱ", "Ⲳ", "Ⲵ", "Ⲷ", "Ⲹ", "Ⲻ",
    "Ⲽ", "Ⲿ", "Ⳁ", "Ⳃ", "Ⳅ", "Ⳇ", "Ⳉ", "Ⳋ", "Ⳍ", "Ⳏ", "Ⳑ", "Ⳓ",
    "Ⳕ", "Ⳗ", "Ⳙ", "Ⳛ", "Ⳝ", "Ⳟ", "Ⳡ", "Ⳣ", "Ⳬ", "Ⳮ", "Ⳳ", "Ꚁ",
    "Ꚃ", "Ꚅ", "Ꚇ", "Ꚉ", "Ꚋ", "Ꚍ", "Ꚏ", "Ꚑ", "Ꚓ", "Ꚕ", "Ꚗ", "Ꚙ",
    "Ꚛ", "Ꞁ", "Ꞃ", "Ꞅ", "Ꞇ", "Ꞌ", "Ꞑ", "Ꞓ", "Ꞔ", "Ꞗ", "Ꞙ", "Ꞛ",
    "Ꞝ", "Ꞟ", "Ꞡ", "Ꞣ", "Ꞥ", "Ꞧ", "Ꞩ", "Ꞵ", "Ꞷ", "Ꞹ", "Ꞻ", "Ꞽ",
    "Ꞿ", "Ꟁ", "Ꟃ", "Ꟈ", "Ꟊ", "Ꟑ", "Ꟗ", "Ꟙ", "Ꟶ">>

FoldTo ==
  <<"µ", "µ", "à", "á", "â", "ã", "ä", "å", "æ", "ç", "è", "é",
    "ê", "ë", "ì", "í", "î", "ï", "ð", "ñ", "ò", "ó", "ô", "õ",
    "ö", "ø", "ù", "ú", "û", "ü", "ý", "þ", "ß", "ƃ", "ƅ", "ƈ",
    "ƌ", "ǝ", "ƒ", "ƕ", "ƙ", "ơ", "ƣ", "ƥ", "ʀ", "ƨ", "ʃ", "ƭ",
    "ʈ", "ư", "ʊ", "ʋ", "ƴ", "ƶ", "ʒ", "ƹ", "ƽ", "ƿ", "ǆ", "ǆ",
    "ǉ", "ǉ", "ǌ", "ǌ", "ǎ", "ǐ", "ǒ", "ǔ", "ǖ", "ǘ", "ǚ", "ǜ",
    "ǟ", "ǡ", "ǣ", "ǥ", "ǧ", "ǩ", "ǫ", "ǭ", "ǯ", "ǳ", "ǳ", "ǵ",
    "ǹ", "ǻ", "ǽ", "ǿ", "ʂ", "ʇ", "ʝ", "ʞ", "ά", "έ", "ή", "ί",
    "ό", "ύ", "ώ", "ΐ", "α", "β", "β", "γ", "δ", "ε", "ε", "ζ",
    "η", "θ", "θ", "θ", "ι", "ι", "κ", "κ", "λ", "ν", "ξ", "ο",
    "π", "π", "ρ", "ρ", "ς", "ς", "τ", "υ", "φ", "φ", "χ", "ψ",
    "ω", "ϊ", "ϋ", "ΰ", "ϗ", "ϙ", "ϛ", "ϝ", "ϟ", "ϡ", "ϣ", "ϥ",
    "ϧ", "ϩ", "ϫ", "ϭ", "ϯ", "ϲ", "ϸ", "ϻ", "ҁ", "ҋ", "ҍ", "ҏ",
    "ґ", "ғ", "ҕ", "җ", "ҙ", "қ", "ҝ", "ҟ", "ҡ", "ң", "ҥ", "ҧ",
    "ҩ", "ҫ", "ҭ", "ү", "ұ", "ҳ", "ҵ", "ҷ", "ҹ", "һ", "ҽ", "ҿ",
    "ӏ", "ӂ", "ӄ", "ӆ", "ӈ", "ӊ", "ӌ", "ӎ", "ӑ", "ӓ", "ӕ", "ӗ",
    "ә", "ӛ", "ӝ", "ӟ", "ӡ", "ӣ", "ӥ", "ӧ", "ө", "ӫ", "ӭ", "ӯ",
    "ӱ", "ӳ", "ӵ", "ӷ", "ӹ", "ӻ", "ӽ", "ӿ", "ა", "ბ", "გ", "დ",
    "ე", "ვ", "ზ", "თ", "ი", "კ", "ლ", "მ", "ნ", "ო", "პ", "ჟ",
    "რ", "ს", "ტ", "უ", "ფ", "ქ", "ღ", "ყ", "შ", "ჩ", "ც", "ძ",
    "წ", "ჭ", "ხ", "ჯ", "ჰ", "ჱ", "ჲ", "ჳ", "ჴ", "ჵ", "ჶ", "ჷ",
    "ჸ", "ჹ", "ჺ", "ჽ", "ჾ", "ჿ", "ꮀ", "ꮁ", "ꮂ", "ꮃ", "ꮄ", "ꮅ",
    "ꮆ", "ꮇ", "ꮈ", "ꮉ", "ꮊ", "ꮋ", "ꮌ", "ꮍ", "ꮎ", "ꮏ", "ꮐ", "ꮑ",
    "ꮒ", "ꮓ", "ꮔ", "ꮕ", "ꮖ", "ꮗ", "ꮘ", "ꮙ", "ꮚ", "ꮛ", "ꮜ", "ꮝ",
    "ꮞ", "ꮟ", "ꮠ", "ꮡ", "ꮢ", "ꮣ", "ꮤ", "ꮥ", "ꮦ", "ꮧ", "ꮨ", "ꮩ",
    "ꮪ", "ꮫ", "ꮬ", "ꮭ", "ꮮ", "ꮯ", "ꮰ", "ꮱ", "ꮲ", "ꮳ", "ꮴ", "ꮵ",
    "ꮶ", "ꮷ", "ꮸ", "ꮹ", "ꮺ", "ꮻ", "ꮼ", "ꮽ", "ꮾ", "ꮿ", "ᏸ", "ᏹ",
    "ᏺ", "ᏻ", "ᏼ", "ᏽ", "ᲄ", "ᶎ", "ẁ", "ẃ", "ẅ", "ẇ", "ẉ", "ẋ",
    "ẍ", "ẏ", "ẑ", "ẓ", "ẕ", "ạ", "ả", "ấ", "ầ", "ẩ", "ẫ", "ậ",
    "ắ", "ằ", "ẳ", "ẵ", "ặ", "ẹ", "ẻ", "ẽ", "ế", "ề", "ể", "ễ",
    "ệ", "ỉ", "ị", "ọ", "ỏ", "ố", "ồ", "ổ", "ỗ", "ộ", "ớ", "ờ",
    "ở", "ỡ", "ợ", "ụ", "ủ", "ứ", "ừ", "ử", "ữ", "ự", "ỳ", "ỵ",
    "ỷ", "ỹ", "ỻ", "ỽ", "ỿ", "ᾀ", "ᾁ", "ᾂ", "ᾃ", "ᾄ", "ᾅ", "ᾆ",
    "ᾇ", "ᾐ", "ᾑ", "ᾒ", "ᾓ", "ᾔ", "ᾕ", "ᾖ", "ᾗ", "ᾠ", "ᾡ", "ᾢ",
    "ᾣ", "ᾤ", "ᾥ", "ᾦ", "ᾧ", "ᾰ", "ᾱ", "ᾳ", "ῃ", "ῐ", "ῑ", "ῠ",
    "ῡ", "ῥ", "ῳ", "ↄ", "ⓐ", "ⓑ", "ⓒ", "ⓓ", "ⓔ", "ⓕ", "ⓖ", "ⓗ",
    "ⓘ", "ⓙ", "ⓚ", "ⓛ", "ⓜ", "ⓝ", "ⓞ", "ⓟ", "ⓠ", "ⓡ", "ⓢ", "ⓣ",
    "ⓤ", "ⓥ", "ⓦ", "ⓧ", "ⓨ", "ⓩ", "ⲁ", "ⲃ", "ⲅ", "ⲇ", "ⲉ", "ⲋ",
    "ⲍ", "ⲏ", "ⲑ", "ⲓ", "ⲕ", "ⲗ", "ⲙ", "ⲛ", "ⲝ", "ⲟ", "ⲡ", "ⲣ",
    "ⲥ", "ⲧ", "ⲩ", "ⲫ", "ⲭ", "ⲯ", "ⲱ", "ⲳ", "ⲵ", "ⲷ", "ⲹ", "ⲻ",
    "ⲽ", "ⲿ", "ⳁ", "ⳃ", "ⳅ", "ⳇ", "ⳉ", "ⳋ", "ⳍ", "ⳏ", "ⳑ", "ⳓ",
    "ⳕ", "ⳗ", "ⳙ", "ⳛ", "ⳝ", "ⳟ", "ⳡ", "ⳣ", "ⳬ", "ⳮ", "ⳳ", "ꚁ",
    "ꚃ", "ꚅ", "ꚇ", "ꚉ", "ꚋ", "ꚍ", "ꚏ", "ꚑ", "ꚓ", "ꚕ", "ꚗ", "ꚙ",
    "ꚛ", "ꞁ", "ꞃ", "ꞅ", "ꞇ", "ꞌ", "ꞑ", "ꞓ", "ꞔ", "ꞗ", "ꞙ", "ꞛ",
    "ꞝ", "ꞟ", "ꞡ", "ꞣ", "ꞥ", "ꞧ", "ꞩ", "ꞵ", "ꞷ", "ꞹ", "ꞻ", "ꞽ",
    "ꞿ", "ꟁ", "ꟃ", "ꟈ", "ꟊ", "ꟑ", "ꟗ", "ꟙ", "ꟶ">>

CaseFold ==
  [c \in {FoldFrom[i] : i \in 1..Len(FoldFrom)} |->
     FoldTo[CHOOSE i \in 1..Len(FoldFrom) : FoldFrom[i] = c]]

\* two characters match without case exactly when their folds are equal
FoldChar(c) == IF c \in DOMAIN CaseFold THEN CaseFold[c] ELSE LowerChar(c)

FoldText(t) == [i \in 1..Len(t) |-> FoldChar(t[i])] \o <<>>

\* n zeros
Zeros(n) == [i \in 1..n |-> "0"]

StripZerosLeft(t) == LStripOf(t, {"0"})

StripZerosRight(t) == RStripOf(t, {"0"})

\* ------------------------------------------------------------------ floats
\* A float is the binary64 value Python holds, written as its sign and the
\* decimal that repr() prints for its magnitude: kind "finite" with the
\* significant digits (no leading and no trailing zero; none for zero) and
\* the power of ten of the first of them, or kind "inf" or "nan".  ok = FALSE
\* is float() raising ValueError.

FloatError ==
  [ok |-> FALSE, kind |-> "error", neg |-> FALSE, digits |-> <<>>, exp |-> 0]

MkFloat(neg, digits, exp) ==
  [ok |-> TRUE, kind |-> "finite", neg |-> neg, digits |-> digits, exp |-> exp]

FloatZero(neg) == MkFloat(neg, <<>>, 0)

FloatInf(neg) ==
  [ok |-> TRUE, kind |-> "inf", neg |-> neg, digits |-> <<>>, exp |-> 0]

\* the sign of a nan is not observable through str, abs, < or 0 - x
FloatNaN ==
  [ok |-> TRUE, kind |-> "nan", neg |-> FALSE, digits |-> <<>>, exp |-> 0]

\* the whitespace float() skips around a literal: str.isspace() without the
\* four separators U+001C..U+001F
FloatWhitespace == Whitespace \ {FS, GS, RS, US}

\* A natural number of any size is the sequence of its limbs of nine decimal
\* digits, the least significant first and the most significant not zero.

RECURSIVE BigNorm(_)
BigNorm(a) ==
  IF a # <<>> /\ a[Len(a)] = 0 THEN BigNorm(SubSeq(a, 1, Len(a) - 1)) ELSE a

\* the value of the k-th digit of d from the right (0 beyond its start)
DigitFromRight(d, k) == IF k <= Len(d) THEN DigitVal(d[Len(d) + 1 - k]) ELSE 0

\* the value of the three digits of d that end at the k-th from the right
ThreeFromRight(d, k) ==
  DigitFromRight(d, k) + 10 * DigitFromRight(d, k + 1)
  + 100 * DigitFromRight(d, k + 2)

BigOfDigits(d) ==
  BigNorm([i \in 1..((Len(d) + 8) \div 9) |->
             ThreeFromRight(d, 9 * i - 8) + 1000 * ThreeFromRight(d, 9 * i - 5)
             + 1000000 * ThreeFromRight(d, 9 * i - 2)])

Limb(a, i) == IF i >= 1 /\ i <= Len(a) THEN a[i] ELSE 0

RECURSIVE BigAddFrom(_, _, _, _)
BigAddFrom(a, b, i, carry) ==
  IF i > Len(a) /\ i > Len(b) THEN (IF carry = 0 THEN <<>> ELSE <<carry>>)
  ELSE <<(Limb(a, i) + Limb(b, i) + carry) % 1000000000>>
       \o BigAddFrom(a, b, i + 1,
                     (Limb(a, i) + Limb(b, i) + carry) \div 1000000000)

BigAdd(a, b) == BigAddFrom(a, b, 1, 0)

\* a * 2
BigDouble(a) == BigAdd(a, a)

RECURSIVE BigMulPow2(_, _)
\* a * 2^n
BigMulPow2(a, n) ==
  IF a = <<>> \/ n = 0 THEN a
  ELSE IF n = 1 THEN BigDouble(a)
  ELSE BigMulPow2(BigMulPow2(a, n \div 2), n - n \div 2)

\* a * 10^j for j in 0..8: the digits move up by j places
BigShiftDigits(a, j) ==
  IF j = 0 THEN a
  ELSE BigNorm([i \in 1..(Len(a) + 1) |->
                  (Limb(a, i) % (10 ^ (9 - j))) * (10 ^ j)
                  + Limb(a, i - 1) \div (10 ^ (9 - j))])

\* a * 10
BigTimes10(a) == BigShiftDigits(a, 1)

\* a * 10^n
BigMulPow10(a, n) ==
  IF a = <<>> THEN <<>>
  ELSE [i \in 1..(n \div 9) |-> 0] \o BigShiftDigits(a, n % 9)

RECURSIVE BigSubFrom(_, _, _, _)
BigSubFrom(a, b, i, borrow) ==
  IF i > Len(a) THEN <<>>
  ELSE <<(a[i] - Limb(b, i) - borrow + 1000000000) % 1000000000>>
       \o BigSubFrom(a, b, i + 1,
                     IF a[i] - Limb(b, i) - borrow < 0 THEN 1 ELSE 0)

\* a - b for a >= b
BigSub(a, b) == BigNorm(BigSubFrom(a, b, 1, 0))

\* the most significant limb in which a and b of one length differ
BigTopDiff(a, b) ==
  CHOOSE i \in 1..Len(a) :
    a[i] # b[i] /\ \A j \in (i + 1)..Len(a) : a[j] = b[j]

\* -1, 0 or 1 as a is less than, equal to or greater than b
BigCmp(a, b) ==
  IF Len(a) # Len(b) THEN (IF Len(a) < Len(b) THEN -1 ELSE 1)
  ELSE IF \A i \in 1..Len(a) : a[i] = b[i] THEN 0
  ELSE IF a[BigTopDiff(a, b)] < b[BigTopDiff(a, b)] THEN -1 ELSE 1

RECURSIVE BigDivFrom(_, _, _)
BigDivFrom(r, t, k) ==
  IF BigCmp(r, t) < 0 THEN [q |-> k, r |-> r]
  ELSE BigDivFrom(BigSub(r, t), t, k + 1)

\* the quotient q (a digit) and the remainder r of r / t, for r < 10 * t
BigDivDigit(r, t) == BigDivFrom(r, t, 0)

RECURSIVE BigDivDigits(_, _, _, _)

BigDivNext(d, t, n, qs) ==
  IF n = 1 THEN [q |-> Append(qs, DigitChars[d.q + 1]), r |-> d.r]
  ELSE BigDivDigits(BigTimes10(d.r), t, n - 1, Append(qs, DigitChars[d.q + 1]))

\* the digits qs and then the n decimal digits of r / t, the first of them
\* its integer part, and the remainder left after the last
BigDivDigits(r, t, n, qs) == BigDivNext(BigDivDigit(r, t), t, n, qs)

\* sys.float_info.mant_dig: the bits of a binary64 mantissa
MantissaBits == 53

\* the greatest and the least binary exponent of a mantissa of 53 bits
MaxBinExp == 971

MinBinExp == -1074

TwoTo52 == BigMulPow2(<<1>>, MantissaBits - 1)

TwoTo53 == BigMulPow2(<<1>>, MantissaBits)

\* sys.float_info.max_10_exp: no float reaches 10^309
MaxFloatExp == 308

\* every positive float is above 10^-324
MinFloatExp == -324

\* sys.float_info.dig: a decimal of this many digits is the shortest decimal
\* of the normal float nearest to it
ExactDigits == 15

\* the shortest decimal that rounds to the float m * 2^q, as repr() finds it:
\* the float is r / s at the scale 10^k, mp and mm are the halves of the gaps
\* to the next float above and below, and the digits are produced until what
\* remains is within one of the two (both count when the mantissa is even)

RECURSIVE GenDigits(_, _, _, _, _, _)

\* j: the remainder against mm, j1: the remainder plus mp against s
GenDecide(d, s, mp, mm, even, ds, j, j1) ==
  IF j1 = 0 /\ even
  THEN Append(ds, DigitChars[d.q + (IF j > 0 THEN 2 ELSE 1)])
  ELSE IF j < 0 \/ (j = 0 /\ even)
  THEN (IF d.r # <<>> /\ j1 > 0
           /\ (BigCmp(BigDouble(d.r), s) > 0
               \/ (BigCmp(BigDouble(d.r), s) = 0 /\ d.q % 2 = 1))
        THEN Append(ds, DigitChars[d.q + 2])
        ELSE Append(ds, DigitChars[d.q + 1]))
  ELSE IF j1 > 0 THEN Append(ds, DigitChars[d.q + 2])
  ELSE GenDigits(d.r, s, mp, mm, even, Append(ds, DigitChars[d.q + 1]))

GenStep(d, s, mp, mm, even, ds) ==
  GenDecide(d, s, mp, mm, even, ds, BigCmp(d.r, mm), BigCmp(BigAdd(d.r, mp), s))

GenDigits(r, s, mp, mm, even, ds) ==
  GenStep(BigDivDigit(BigTimes10(r), s), s,
          BigTimes10(mp), BigTimes10(mm), even, ds)

RECURSIVE FixUp(_, _, _, _, _, _, _)
\* k is the least power of ten above the upper boundary
FixUp(neg, even, k, r, s, mp, mm) ==
  IF BigCmp(BigAdd(r, mp), s) >= (IF even THEN 0 ELSE 1)
  THEN FixUp(neg, even, k + 1, r, BigTimes10(s), mp, mm)
  ELSE IF BigCmp(BigTimes10(BigAdd(r, mp)), s) < (IF even THEN 0 ELSE 1)
  THEN FixUp(neg, even, k - 1, BigTimes10(r), s,
             BigTimes10(mp), BigTimes10(mm))
  ELSE MkFloat(neg, GenDigits(r, s, mp, mm, even, <<>>), k - 1)

Scale(neg, even, k, r, s, mp, mm) ==
  IF k >= 0 THEN FixUp(neg, even, k, r, BigMulPow10(s, k), mp, mm)
  ELSE FixUp(neg, even, k, BigMulPow10(r, 0 - k), s,
             BigMulPow10(mp, 0 - k), BigMulPow10(mm, 0 - k))

\* u = 2 when the float below is nearer than the float above (the mantissa
\* is 2^52 and the exponent not the least), else 1
ShortestOf(neg, exp, m, q, u) ==
  IF q >= 0
  THEN Scale(neg, Limb(m, 1) % 2 = 0, exp + 1,
             BigMulPow2(m, q + u), BigMulPow2(<<1>>, u),
             BigMulPow2(<<1>>, q + u - 1), BigMulPow2(<<1>>, q))
  ELSE Scale(neg, Limb(m, 1) % 2 = 0, exp + 1,
             BigMulPow2(m, u), BigMulPow2(<<1>>, u - q),
             BigMulPow2(<<1>>, u - 1), <<1>>)

\* the float m * 2^q, for a magnitude near 10^exp: inf beyond the greatest
FloatOfBits(neg, exp, m, q) ==
  IF q > MaxBinExp THEN FloatInf(neg)
  ELSE ShortestOf(neg, exp, m, q, IF m = TwoTo52 /\ q > MinBinExp THEN 2 ELSE 1)

FloatOfBinary(neg, exp, q, m) ==
  IF m = <<>> THEN FloatZero(neg)
  ELSE IF m = TwoTo53 THEN FloatOfBits(neg, exp, TwoTo52, q + 1)
  ELSE FloatOfBits(neg, exp, m, q)

\* round-half-even: c compares twice the remainder with the divisor
Rounded(neg, exp, q, m, c) ==
  FloatOfBinary(neg, exp, q,
                IF c > 0 \/ (c = 0 /\ Limb(m, 1) % 2 = 1)
                THEN BigAdd(m, <<1>>) ELSE m)

RoundQuotient(neg, exp, q, d, t) ==
  Rounded(neg, exp, q, BigOfDigits(d.q), BigCmp(BigDouble(d.r), t))

RECURSIVE NormalizeUp(_, _, _, _, _, _)
\* the exponent q is raised until num / den is below 2^53 (den53 is
\* den * 2^53); the quotient is then the mantissa of 16 decimal digits at most
NormalizeUp(neg, exp, q, num, den, den53) ==
  IF BigCmp(num, den53) < 0
  THEN RoundQuotient(neg, exp, q,
                     BigDivDigits(num, BigMulPow10(den, 15), 16, <<>>),
                     BigMulPow10(den, 15))
  ELSE NormalizeUp(neg, exp, q + 1, num, BigDouble(den),
                   BigDouble(den53))

Normalize(neg, exp, q, num, den) ==
  NormalizeUp(neg, exp, q, num, den, BigMulPow2(den, MantissaBits))

\* the natural part of n
Max0(n) == IF n > 0 THEN n ELSE 0

\* the float nearest to big * 10^p, a magnitude in [10^exp, 10^(exp+1)),
\* from the exponent q on: num / den is big * 10^p / 2^q
FloatOfScaled(neg, big, p, exp, q) ==
  Normalize(neg, exp, q,
            BigMulPow2(BigMulPow10(big, Max0(p)), Max0(0 - q)),
            BigMulPow2(BigMulPow10(<<1>>, Max0(0 - p)), Max0(q)))

\* a binary exponent not above that of the mantissa of a magnitude in
\* [10^exp, 10^(exp+1)): exp * log2(10) - 53 rounded down, the least exponent
\* at least
BinExpBelow(exp) ==
  IF (exp * 3321928) \div 1000000 - MantissaBits < MinBinExp THEN MinBinExp
  ELSE (exp * 3321928) \div 1000000 - MantissaBits

\* the float nearest to digits * 10^exp (round-half-even), as the decimal
\* repr() prints for it: inf above the range, zero below it
FloatNearest(neg, digits, exp) ==
  IF exp > MaxFloatExp THEN FloatInf(neg)
  ELSE IF exp < MinFloatExp THEN FloatZero(neg)
  ELSE IF Len(digits) <= ExactDigits /\ exp >= -307 /\ exp < MaxFloatExp
  THEN MkFloat(neg, digits, exp)
  ELSE FloatOfScaled(neg, BigOfDigits(digits), exp - (Len(digits) - 1), exp,
                     BinExpBelow(exp))

\* the float of the digit runs before and after the point, times 10^e
FloatOfDigits(neg, ip, all, e) ==
  IF StripZerosLeft(all) = <<>> THEN FloatZero(neg)
  ELSE FloatNearest(neg, StripZerosRight(StripZerosLeft(all)),
                    e + Len(ip) - 1 - (Len(all) - Len(StripZerosLeft(all))))

FloatOfParts(neg, ip, fp, e) ==
  IF AllDigits(ip) /\ AllDigits(fp) /\ Len(ip) + Len(fp) > 0
  THEN FloatOfDigits(neg, AsciiDigits(ip), AsciiDigits(ip \o fp), e)
  ELSE FloatError

\* the mantissa of a float literal, split at its first "." (at dot, or 0)
FloatOfMantissa(neg, mant, dot, e) ==
  IF dot = 0 THEN FloatOfParts(neg, mant, <<>>, e)
  ELSE FloatOfParts(neg, SubSeq(mant, 1, dot - 1),
                    SubSeq(mant, dot + 1, Len(mant)), e)

\* the exponent float() takes for a run of more than nine significant digits
MaxAbsExp == 1100000000

\* the value of the digits of an exponent: read exactly up to nine
\* significant digits, MaxAbsExp beyond
ExpOfDigits(ds) ==
  IF Len(StripZerosLeft(AsciiDigits(ds))) > 9 THEN MaxAbsExp
  ELSE NatOfText(StripZerosLeft(AsciiDigits(ds)))

\* the exponent part of a literal (after its e or E); <<>> when it is not one
ExpOfText(t) ==
  IF t # <<>> /\ t[1] \in {"-", "+"}
  THEN (IF Len(t) > 1 /\ AllDigits(Tail(t))
        THEN <<(IF t[1] = "-" THEN 0 - ExpOfDigits(Tail(t)) ELSE ExpOfDigits(Tail(t)))>>
        ELSE <<>>)
  ELSE (IF t # <<>> /\ AllDigits(t) THEN <<ExpOfDigits(t)>> ELSE <<>>)

FloatOfExp(neg, mant, e) ==
  IF e = <<>> THEN FloatError
  ELSE FloatOfMantissa(neg, mant, IndexOf(mant, "."), e[1])

\* the unsigned number of a literal, split at its first e or E (at epos, or 0)
FloatOfBody(neg, body, epos) ==
  IF epos = 0 THEN FloatOfMantissa(neg, body, IndexOf(body, "."), 0)
  ELSE FloatOfExp(neg, SubSeq(body, 1, epos - 1),
                  ExpOfText(SubSeq(body, epos + 1, Len(body))))

FloatOfSigned(neg, body) ==
  IF Lower(body) \in {<<"i", "n", "f">>,
                      <<"i", "n", "f", "i", "n", "i", "t", "y">>}
  THEN FloatInf(neg)
  ELSE IF Lower(body) = <<"n", "a", "n">> THEN FloatNaN
  ELSE FloatOfBody(neg, body, IndexOf(Lower(body), "e"))

\* the underscores of a numeric literal each stand between two digits
ValidUnderscores(t) ==
  \A i \in 1..Len(t) :
    t[i] = "_" => i > 1 /\ i < Len(t) /\ IsDigit(t[i - 1]) /\ IsDigit(t[i + 1])

RemoveUnderscores(t) == SelectSeq(t, LAMBDA c : c # "_")

FloatOfStripped(t) ==
  IF ~ValidUnderscores(t) THEN FloatError
  ELSE IF t # <<>> /\ t[1] \in {"-", "+"}
  THEN FloatOfSigned(t[1] = "-", RemoveUnderscores(Tail(t)))
  ELSE FloatOfSigned(FALSE, RemoveUnderscores(t))

\* float(text)
ParseFloat(text) ==
  FloatOfStripped(RStripOf(LStripOf(text, FloatWhitespace), FloatWhitespace))

\* 0 - x (IEEE: 0 - 0.0 and 0 - (-0.0) are both +0.0)
ZeroMinus(x) ==
  IF x.kind = "nan" THEN x
  ELSE IF x.kind = "finite" /\ x.digits = <<>> THEN FloatZero(FALSE)
  ELSE [x EXCEPT !.neg = ~x.neg]

\* x < 0
IsNegative(x) == x.neg /\ (x.kind = "inf" \/ x.digits # <<>>)

\* abs(x)
FloatAbs(x) == [x EXCEPT !.neg = FALSE]

\* the digits d * 10^e in positional notation, with ".0" for an integer
FixedText(d, e) ==
  IF e < 0 THEN <<"0", ".">> \o Zeros(0 - e - 1) \o d
  ELSE IF Len(d) <= e + 1 THEN d \o Zeros(e + 1 - Len(d)) \o <<".", "0">>
  ELSE SubSeq(d, 1, e + 1) \o <<".">> \o SubSeq(d, e + 2, Len(d))

\* the digits d * 10^e in scientific notation, the exponent of two digits
\* at least
SciText(d, e) ==
  <<d[1]>> \o (IF Len(d) > 1 THEN <<".">> \o Tail(d) ELSE <<>>)
  \o (IF e < 0 THEN <<"e", "-">> \o Pad2(0 - e) ELSE <<"e", "+">> \o Pad2(e))

FloatMagnitudeStr(x) ==
  IF x.kind = "inf" THEN <<"i", "n", "f">>
  ELSE IF x.digits = <<>> THEN <<"0", ".", "0">>
  ELSE IF x.exp < -4 \/ x.exp >= 16 THEN SciText(x.digits, x.exp)
  ELSE FixedText(x.digits, x.exp)

\* str(x) / f"{x}": the shortest repr of the float
FloatStr(x) ==
  IF x.kind = "nan" THEN <<"n", "a", "n">>
  ELSE (IF x.neg THEN <<"-">> ELSE <<>>) \o FloatMagnitudeStr(x)

\* ------------------------------------------------------------------ dates
\* A datetime is its calendar date, its time of day (us: microseconds) and
\* its time zone;
\* ok = FALSE is an operation on dates raising (strptime: ValueError,
\* date +- timedelta: OverflowError).

\* a time zone is its offset from UTC; a naive datetime has none (set =
\* FALSE); ok = FALSE is timezone() raising ValueError
NoZone == [ok |-> TRUE, set |-> FALSE, neg |-> FALSE, s |-> 0, us |-> 0]

ZoneError == [ok |-> FALSE, set |-> FALSE, neg |-> FALSE, s |-> 0, us |-> 0]

MkZone(neg, s, us) ==
  [ok |-> TRUE, set |-> TRUE, neg |-> neg /\ (s > 0 \/ us > 0), s |-> s, us |-> us]

DateError ==
  [ok |-> FALSE, y |-> 0, m |-> 0, d |-> 0, H |-> 0, M |-> 0, S |-> 0, us |-> 0,
   tz |-> NoZone]

\* a naive datetime
MkDateTime(y, m, d, H, M, S, us) ==
  [ok |-> TRUE, y |-> y, m |-> m, d |-> d, H |-> H, M |-> M, S |-> S, us |-> us,
   tz |-> NoZone]

MkDate(y, m, d) == MkDateTime(y, m, d, 0, 0, 0, 0)

IsLeap(y) == (y % 4 = 0 /\ y % 100 # 0) \/ y % 400 = 0

DaysInMonth(y, m) ==
  IF m = 2 THEN (IF IsLeap(y) THEN 29 ELSE 28)
  ELSE IF m \in {4, 6, 9, 11} THEN 30 ELSE 31

\* datetime.MAXYEAR
MaxYear == 9999

\* date.max.toordinal()
MaxOrdinal == 3652059

\* datetime(y, m, d, H, M, S, us): ValueError outside the calendar or the clock
DateTimeOfNumbers(y, m, d, H, M, S, us) ==
  IF /\ y >= 1 /\ y <= MaxYear /\ m \in 1..12
     /\ d >= 1 /\ d <= DaysInMonth(y, m)
     /\ H \in 0..23 /\ M \in 0..59 /\ S \in 0..59 /\ us \in 0..999999
  THEN MkDateTime(y, m, d, H, M, S, us)
  ELSE DateError

DateOfNumbers(y, m, d) == DateTimeOfNumbers(y, m, d, 0, 0, 0, 0)

\* the days before January 1st of year y
DaysBeforeYear(y) ==
  (y - 1) * 365 + (y - 1) \div 4 - (y - 1) \div 100 + (y - 1) \div 400

DaysBeforeMonthTable == <<0, 31, 59, 90, 120, 151, 181, 212, 243, 273, 304, 334>>

\* the days of year y before the first of month m
DaysBeforeMonth(y, m) ==
  DaysBeforeMonthTable[m] + (IF m > 2 /\ IsLeap(y) THEN 1 ELSE 0)

\* date.toordinal()
ToOrdinal(dt) == DaysBeforeYear(dt.y) + DaysBeforeMonth(dt.y, dt.m) + dt.d

MonthOfYearDay(y, n) ==
  CHOOSE m \in 1..12 :
    DaysBeforeMonth(y, m) < n /\ n <= DaysBeforeMonth(y, m) + DaysInMonth(y, m)

\* the year, month and day of the n-th day of year y
YmdOfYearDay(y, n) ==
  <<y, MonthOfYearDay(y, n), n - DaysBeforeMonth(y, MonthOfYearDay(y, n))>>

\* the last steps of date.fromordinal: r days into a 4-year cycle that
\* starts with year yr, in century n100 of its 400-year cycle
YmdOfCycleDay(yr, n100, r) ==
  IF r \div 365 = 4 \/ n100 = 4 THEN <<yr + r \div 365 - 1, 12, 31>>
  ELSE YmdOfYearDay(yr + r \div 365, (r % 365) + 1)

YmdOfCenturyDay(yr, n100, r) ==
  YmdOfCycleDay(yr + (r \div 1461) * 4, n100, r % 1461)

YmdOfEraDay(n400, r) ==
  YmdOfCenturyDay(n400 * 400 + 1 + (r \div 36524) * 100, r \div 36524, r % 36524)

\* date.fromordinal(n) as <<year, month, day>>, for n in 1..MaxOrdinal
YmdOfOrdinal(n) == YmdOfEraDay((n - 1) \div 146097, (n - 1) % 146097)

WithYmd(dt, ymd) == [dt EXCEPT !.y = ymd[1], !.m = ymd[2], !.d = ymd[3]]

\* date + timedelta(days=n), n of either sign: OverflowError (ok = FALSE)
\* when the result leaves the years 1..9999
AddDays(dt, n) ==
  IF n > MaxOrdinal \/ n < 0 - MaxOrdinal THEN DateError
  ELSE IF ToOrdinal(dt) + n < 1 \/ ToOrdinal(dt) + n > MaxOrdinal THEN DateError
  ELSE WithYmd(dt, YmdOfOrdinal(ToOrdinal(dt) + n))

\* n zero-padded to w digits
PadLeft(n, w) == Zeros(w - Len(TextOfNat(n))) \o TextOfNat(n)

\* the year zero-padded to four digits
Pad4(n) == PadLeft(n, 4)

\* date.strftime("%Y-%m-%d"): the C library's %Y does not pad the year
Strftime(dt) == TextOfNat(dt.y) \o <<"-">> \o Pad2(dt.m) \o <<"-">> \o Pad2(dt.d)

\* the UTC offset as isoformat() prints it
ZoneText(tz) ==
  IF ~tz.set THEN <<>>
  ELSE (IF tz.neg THEN <<"-">> ELSE <<"+">>)
       \o Pad2(tz.s \div 3600) \o <<":">> \o Pad2((tz.s % 3600) \div 60)
       \o (IF tz.s % 60 # 0 \/ tz.us # 0 THEN <<":">> \o Pad2(tz.s % 60) ELSE <<>>)
       \o (IF tz.us # 0 THEN <<".">> \o PadLeft(tz.us, 6) ELSE <<>>)

\* datetime.isoformat(): the year of four digits, the microseconds when
\* there are any, the offset of an aware datetime
IsoFormat(dt) ==
  Pad4(dt.y) \o <<"-">> \o Pad2(dt.m) \o <<"-">> \o Pad2(dt.d)
  \o <<"T">> \o Pad2(dt.H) \o <<":">> \o Pad2(dt.M) \o <<":">> \o Pad2(dt.S)
  \o (IF dt.us = 0 THEN <<>> ELSE <<".">> \o PadLeft(dt.us, 6))
  \o ZoneText(dt.tz)

\* the names of the C locale, in lower case
MonthNames ==
  <<<<"j", "a", "n", "u", "a", "r", "y">>,
    <<"f", "e", "b", "r", "u", "a", "r", "y">>,
    <<"m", "a", "r", "c", "h">>,
    <<"a", "p", "r", "i", "l">>,
    <<"m", "a", "y">>,
    <<"j", "u", "n", "e">>,
    <<"j", "u", "l", "y">>,
    <<"a", "u", "g", "u", "s", "t">>,
    <<"s", "e", "p", "t", "e", "m", "b", "e", "r">>,
    <<"o", "c", "t", "o", "b", "e", "r">>,
    <<"n", "o", "v", "e", "m", "b", "e", "r">>,
    <<"d", "e", "c", "e", "m", "b", "e", "r">>>>

WeekdayNames ==
  <<<<"m", "o", "n", "d", "a", "y">>,
    <<"t", "u", "e", "s", "d", "a", "y">>,
    <<"w", "e", "d", "n", "e", "s", "d", "a", "y">>,
    <<"t", "h", "u", "r", "s", "d", "a", "y">>,
    <<"f", "r", "i", "d", "a", "y">>,
    <<"s", "a", "t", "u", "r", "d", "a", "y">>,
    <<"s", "u", "n", "d", "a", "y">>>>

AmPmNames == <<<<"a", "m">>, <<"p", "m">>>>

\* the first three letters of each name (%b, %a)
Abbreviated(names) == [i \in 1..Len(names) |-> SubSeq(names[i], 1, 3)]

\* the zone names %Z accepts when the local zone is UTC
TimezoneNames == <<<<"u", "t", "c">>, <<"g", "m", "t">>>>

\* ------------------------------------------------------------------ strptime
\* datetime.strptime(text, format) is computed the way _strptime computes it:
\* the format becomes a pattern of tokens, the pattern is matched against
\* the text from its start, alternatives in their order and with
\* backtracking, and the fields found are converted in the order of the
\* format.  Letters compare without case (re.IGNORECASE), \d is a decimal
\* digit of any script and [0-9] an ASCII digit.

ErrorToken == [k |-> "error", c |-> ""]

BlankToken == [k |-> "blank", c |-> ""]

LiteralToken(c) == [k |-> "literal", c |-> c]

DirectiveToken(c) == [k |-> "directive", c |-> c]

NumericDirectives ==
  {"Y", "G", "y", "m", "d", "H", "I", "M", "S", "f", "j", "w", "u", "U", "W", "V"}

NameDirectives == {"a", "A", "b", "B", "p", "Z"}

\* the formats of %c, %x and %X in the C locale
LocaleDateTime == <<"%", "a", " ", "%", "b", " ", "%", "d", " ", "%", "H", ":", "%", "M", ":", "%", "S", " ", "%", "Y">>

LocaleDate == <<"%", "m", "/", "%", "d", "/", "%", "y">>

LocaleTime == <<"%", "H", ":", "%", "M", ":", "%", "S">>

RECURSIVE Tokens(_)

\* the tokens of the directive %c
TokensOfDirective(c) ==
  IF c = "%" THEN <<LiteralToken("%")>>
  ELSE IF c \in NumericDirectives \cup NameDirectives \cup {"z"}
  THEN <<DirectiveToken(c)>>
  ELSE IF c = "c" THEN Tokens(LocaleDateTime)
  ELSE IF c = "x" THEN Tokens(LocaleDate)
  ELSE IF c = "X" THEN Tokens(LocaleTime)
  ELSE <<ErrorToken>>

\* TimeRE.pattern: a run of whitespace is one token, % takes the next
\* character as its directive, every other character stands for itself
Tokens(format) ==
  IF format = <<>> THEN <<>>
  ELSE IF format[1] = "%"
  THEN (IF Len(format) = 1 THEN <<ErrorToken>>
        ELSE TokensOfDirective(format[2]) \o Tokens(SubSeq(format, 3, Len(format))))
  ELSE IF format[1] \in Whitespace THEN <<BlankToken>> \o Tokens(LStrip(format))
  ELSE <<LiteralToken(format[1])>> \o Tokens(Tail(format))

\* the pattern compiles: every directive is known and none occurs twice
\* (a directive is a named group of the pattern)
ValidTokens(toks) ==
  /\ \A i \in 1..Len(toks) : toks[i].k # "error"
  /\ \A i, j \in 1..Len(toks) :
       (i < j /\ toks[i].k = "directive" /\ toks[j].k = "directive")
       => toks[i].c # toks[j].c

\* the n characters of text from position p
Sub(text, p, n) == SubSeq(text, p, p + n - 1)

DigitsAt(text, p, n) == p + n - 1 <= Len(text) /\ AllDigits(Sub(text, p, n))

\* the character classes of the patterns of the numeric directives: an ASCII
\* digit from lo to hi ([lo-hi]), a decimal digit of any script (\d), a blank
AsciiRange(lo, hi) == <<"range", lo, hi>>

AnyDigit == <<"digit", 0, 9>>

Blank == <<"blank", 0, 0>>

ClassAt(class, c) ==
  IF class[1] = "digit" THEN IsDigit(c)
  ELSE IF class[1] = "blank" THEN c = Space
  ELSE \E v \in class[2]..class[3] : DigitChars[v + 1] = c

\* the alternatives of the pattern of a numeric directive, in their order
Alternatives(c) ==
  IF c \in {"Y", "G"} THEN <<<<AnyDigit, AnyDigit, AnyDigit, AnyDigit>>>>
  ELSE IF c = "y" THEN <<<<AnyDigit, AnyDigit>>>>
  ELSE IF c = "d"
  THEN <<<<AsciiRange(3, 3), AsciiRange(0, 1)>>, <<AsciiRange(1, 2), AnyDigit>>,
         <<AsciiRange(0, 0), AsciiRange(1, 9)>>, <<AsciiRange(1, 9)>>,
         <<Blank, AsciiRange(1, 9)>>>>
  ELSE IF c = "f"
  THEN [i \in 1..6 |-> [j \in 1..(7 - i) |-> AsciiRange(0, 9)]]
  ELSE IF c = "H"
  THEN <<<<AsciiRange(2, 2), AsciiRange(0, 3)>>, <<AsciiRange(0, 1), AnyDigit>>,
         <<AnyDigit>>>>
  ELSE IF c \in {"I", "m"}
  THEN <<<<AsciiRange(1, 1), AsciiRange(0, 2)>>,
         <<AsciiRange(0, 0), AsciiRange(1, 9)>>, <<AsciiRange(1, 9)>>>>
  ELSE IF c = "j"
  THEN <<<<AsciiRange(3, 3), AsciiRange(6, 6), AsciiRange(0, 6)>>,
         <<AsciiRange(3, 3), AsciiRange(0, 5), AnyDigit>>,
         <<AsciiRange(1, 2), AnyDigit, AnyDigit>>,
         <<AsciiRange(0, 0), AsciiRange(1, 9), AnyDigit>>,
         <<AsciiRange(0, 0), AsciiRange(0, 0), AsciiRange(1, 9)>>,
         <<AsciiRange(1, 9), AnyDigit>>,
         <<AsciiRange(0, 0), AsciiRange(1, 9)>>, <<AsciiRange(1, 9)>>>>
  ELSE IF c = "M" THEN <<<<AsciiRange(0, 5), AnyDigit>>, <<AnyDigit>>>>
  ELSE IF c = "S"
  THEN <<<<AsciiRange(6, 6), AsciiRange(0, 1)>>, <<AsciiRange(0, 5), AnyDigit>>,
         <<AnyDigit>>>>
  ELSE IF c \in {"U", "W"}
  THEN <<<<AsciiRange(5, 5), AsciiRange(0, 3)>>, <<AsciiRange(0, 4), AnyDigit>>,
         <<AnyDigit>>>>
  ELSE IF c = "w" THEN <<<<AsciiRange(0, 6)>>>>
  ELSE IF c = "u" THEN <<<<AsciiRange(1, 7)>>>>
  ELSE <<<<AsciiRange(5, 5), AsciiRange(0, 3)>>,
         <<AsciiRange(0, 0), AsciiRange(1, 9)>>, <<AsciiRange(1, 4), AnyDigit>>,
         <<AnyDigit>>>>

\* the alternative matches the text at p
AlternativeAt(alt, text, p) ==
  /\ p + Len(alt) - 1 <= Len(text)
  /\ \A i \in 1..Len(alt) : ClassAt(alt[i], text[p + i - 1])

LensOf(seqs) == [i \in 1..Len(seqs) |-> Len(seqs[i])]

\* the lengths a numeric directive can take at p, in the order of its
\* alternatives
NumericLens(c, text, p) ==
  LensOf(SelectSeq(Alternatives(c), LAMBDA alt : AlternativeAt(alt, text, p)))

\* the names a name directive accepts
NamesOf(c) ==
  IF c = "B" THEN MonthNames
  ELSE IF c = "b" THEN Abbreviated(MonthNames)
  ELSE IF c = "A" THEN WeekdayNames
  ELSE IF c = "a" THEN Abbreviated(WeekdayNames)
  ELSE IF c = "p" THEN AmPmNames
  ELSE TimezoneNames

\* the name (in lower case) matches the text at p without case
NameAt(name, text, p) ==
  p + Len(name) - 1 <= Len(text) /\ FoldText(Sub(text, p, Len(name))) = name

\* no name is the start of another, so at most one matches
NameLens(c, text, p) ==
  LensOf(SelectSeq(NamesOf(c), LAMBDA name : NameAt(name, text, p)))

\* [0-5]\d at position p
SixtyAt(text, p) == AlternativeAt(<<AsciiRange(0, 5), AnyDigit>>, text, p)

\* the length of sign, hours and minutes of an offset at p, a colon before
\* the minutes or none (0: there is no offset)
ZoneBase(text, p) ==
  IF ~(p + 2 <= Len(text) /\ text[p] \in {"+", "-"} /\ DigitsAt(text, p + 1, 2))
  THEN 0
  ELSE IF p + 3 <= Len(text) /\ text[p + 3] = ":"
  THEN (IF SixtyAt(text, p + 4) THEN 6 ELSE 0)
  ELSE IF SixtyAt(text, p + 3) THEN 5 ELSE 0

\* the length of the seconds of an offset at q, with their colon or without
ZoneSeconds(text, q) ==
  IF q <= Len(text) /\ text[q] = ":" THEN (IF SixtyAt(text, q + 1) THEN 3 ELSE 0)
  ELSE IF SixtyAt(text, q) THEN 2 ELSE 0

\* the digits at r, six at most
DigitRun(text, r) ==
  CHOOSE k \in 0..6 : DigitsAt(text, r, k) /\ (k = 6 \/ ~DigitsAt(text, r, k + 1))

\* the digits of the fraction that follows the seconds ending before r
ZoneFraction(text, r) ==
  IF r <= Len(text) /\ text[r] = "." THEN DigitRun(text, r + 1) ELSE 0

\* an offset of n characters and a fraction of k digits at most, longest first
FractionLens(n, k) == [i \in 1..k |-> n + 1 + (k + 1 - i)]

ZoneLensSeconds(text, p, b, s) ==
  IF s = 0 THEN <<b>>
  ELSE FractionLens(b + s, ZoneFraction(text, p + b + s)) \o <<b + s, b>>

ZoneLensBase(text, p, b) ==
  IF b = 0 THEN <<>> ELSE ZoneLensSeconds(text, p, b, ZoneSeconds(text, p + b))

\* %z: [+-]hh[:]mm[[:]ss[.ffffff]] or the capital letter Z
ZoneLens(text, p) ==
  IF p <= Len(text) /\ text[p] = "Z" THEN <<1>>
  ELSE ZoneLensBase(text, p, ZoneBase(text, p))

\* the greatest run of whitespace at p, then the shorter ones
BlankLens(text, p) ==
  [i \in 1..(Len(SubSeq(text, p, Len(text))) - Len(LStrip(SubSeq(text, p, Len(text)))))
     |-> (Len(SubSeq(text, p, Len(text))) - Len(LStrip(SubSeq(text, p, Len(text))))) + 1 - i]

\* the lengths of text a token can take at p, in the order they are tried
Candidates(tok, text, p) ==
  IF tok.k = "blank" THEN BlankLens(text, p)
  ELSE IF tok.k = "literal"
  THEN (IF p <= Len(text) /\ FoldChar(text[p]) = FoldChar(tok.c) THEN <<1>> ELSE <<>>)
  ELSE IF tok.c \in NumericDirectives THEN NumericLens(tok.c, text, p)
  ELSE IF tok.c = "z" THEN ZoneLens(text, p)
  ELSE NameLens(tok.c, text, p)

NoMatch == [ok |-> FALSE, end |-> 0, found |-> <<>>]

\* the first of two results that is a match
OrElse(r, other) == IF r.ok THEN r ELSE other

\* the fields found so far, with the text of token tok when it is a directive
Found(found, tok, s) ==
  IF tok.k = "directive" THEN Append(found, <<tok.c, s>>) ELSE found

RECURSIVE MatchFrom(_, _, _, _, _)
RECURSIVE TryLens(_, _, _, _, _, _)

\* token k takes the first of the lengths lens with which the rest matches
TryLens(toks, k, text, p, found, lens) ==
  IF lens = <<>> THEN NoMatch
  ELSE OrElse(MatchFrom(toks, k + 1, text, p + lens[1],
                        Found(found, toks[k], Sub(text, p, lens[1]))),
              TryLens(toks, k, text, p, found, Tail(lens)))

\* re.match of the tokens from k on at position p of text
MatchFrom(toks, k, text, p, found) ==
  IF k > Len(toks) THEN [ok |-> TRUE, end |-> p, found |-> found]
  ELSE TryLens(toks, k, text, p, found, Candidates(toks[k], text, p))

\* int(s) of a matched number (the day may be blank-padded)
IntOf(s) == NatOfText(LStripOf(s, {Space}))

\* list.index(s.lower()) + 1: the position of the name, 0 for the ValueError
\* of a text that is none of the names in lower case
NameIndex(names, s) ==
  IF \E i \in 1..Len(names) : names[i] = Lower(s)
  THEN CHOOSE i \in 1..Len(names) : names[i] = Lower(s)
  ELSE 0

\* the field set from the position n of a name, when there is one
WithName(st, n, new) == IF n = 0 THEN [st EXCEPT !.bad = TRUE] ELSE new

\* found_dict.get(c, ""), lower-cased
GroupOf(found, c) ==
  IF \E i \in 1..Len(found) : found[i][1] = c
  THEN Lower(found[CHOOSE i \in 1..Len(found) : found[i][1] = c][2])
  ELSE <<>>

\* the hour of the 12-hour clock under the AM/PM marker found
HourOf12(hour, ampm) ==
  IF ampm \in {<<>>, AmPmNames[1]} THEN (IF hour = 12 THEN 0 ELSE hour)
  ELSE IF hour # 12 THEN hour + 12 ELSE hour

\* the matched offset without its colons
ZoneDigits(s) == SelectSeq(s, LAMBDA c : c # ":")

\* the colons of an offset with seconds are both there or both missing
ZoneColonsAgree(s) ==
  Len(ZoneDigits(s)) <= 5 \/ Len(s) - Len(ZoneDigits(s)) \in {0, 2}

ZoneSecondsOf(z) ==
  NatOfText(SubSeq(z, 2, 3)) * 3600 + NatOfText(SubSeq(z, 4, 5)) * 60
  + (IF Len(z) >= 7 THEN NatOfText(SubSeq(z, 6, 7)) ELSE 0)

ZoneMicrosOf(z) ==
  IF Len(z) > 8 THEN NatOfText(SubSeq(z, 9, Len(z)) \o Zeros(6 - (Len(z) - 8))) ELSE 0

\* timezone(timedelta(seconds, microseconds)) of the canonical offset z:
\* less than a day
ZoneOfDigits(z) ==
  IF NatOfText(SubSeq(z, 2, 3)) > 23 THEN ZoneError
  ELSE MkZone(z[1] = "-", ZoneSecondsOf(z), ZoneMicrosOf(z))

\* the time zone of a matched %z
ZoneOf(s) ==
  IF s = <<"Z">> THEN MkZone(FALSE, 0, 0)
  ELSE IF ~ZoneColonsAgree(s) THEN ZoneError
  ELSE ZoneOfDigits(ZoneDigits(s))

WithZone(st, tz) ==
  IF tz.ok THEN [st EXCEPT !.tz = tz] ELSE [st EXCEPT !.bad = TRUE]

\* the fields of _strptime before any directive is converted: an absent
\* number is <<>>, a present one <<n>>; bad: a conversion raised
NoFields ==
  [year |-> <<>>, iso_year |-> <<>>, month |-> 1, day |-> 1,
   hour |-> 0, minute |-> 0, second |-> 0, fraction |-> 0,
   weekday |-> <<>>, julian |-> <<>>, week_of_year |-> <<>>,
   week_starts_Mon |-> FALSE, iso_week |-> <<>>, tz |-> NoZone, bad |-> FALSE]

\* one pass of the loop over found_dict: directive c matched the text s
ConvertField(st, c, s, found) ==
  IF c = "y"
  THEN [st EXCEPT !.year = <<IntOf(s) + (IF IntOf(s) <= 68 THEN 2000 ELSE 1900)>>]
  ELSE IF c = "Y" THEN [st EXCEPT !.year = <<IntOf(s)>>]
  ELSE IF c = "G" THEN [st EXCEPT !.iso_year = <<IntOf(s)>>]
  ELSE IF c = "m" THEN [st EXCEPT !.month = IntOf(s)]
  ELSE IF c = "B"
  THEN WithName(st, NameIndex(MonthNames, s),
                [st EXCEPT !.month = NameIndex(MonthNames, s)])
  ELSE IF c = "b"
  THEN WithName(st, NameIndex(Abbreviated(MonthNames), s),
                [st EXCEPT !.month = NameIndex(Abbreviated(MonthNames), s)])
  ELSE IF c = "d" THEN [st EXCEPT !.day = IntOf(s)]
  ELSE IF c = "H" THEN [st EXCEPT !.hour = IntOf(s)]
  ELSE IF c = "I" THEN [st EXCEPT !.hour = HourOf12(IntOf(s), GroupOf(found, "p"))]
  ELSE IF c = "M" THEN [st EXCEPT !.minute = IntOf(s)]
  ELSE IF c = "S" THEN [st EXCEPT !.second = IntOf(s)]
  ELSE IF c = "f" THEN [st EXCEPT !.fraction = NatOfText(s \o Zeros(6 - Len(s)))]
  ELSE IF c = "A"
  THEN WithName(st, NameIndex(WeekdayNames, s),
                [st EXCEPT !.weekday = <<NameIndex(WeekdayNames, s) - 1>>])
  ELSE IF c = "a"
  THEN WithName(st, NameIndex(Abbreviated(WeekdayNames), s),
                [st EXCEPT !.weekday = <<NameIndex(Abbreviated(WeekdayNames), s) - 1>>])
  ELSE IF c = "w"
  THEN [st EXCEPT !.weekday = <<(IF IntOf(s) = 0 THEN 6 ELSE IntOf(s) - 1)>>]
  ELSE IF c = "u" THEN [st EXCEPT !.weekday = <<IntOf(s) - 1>>]
  ELSE IF c = "j" THEN [st EXCEPT !.julian = <<IntOf(s)>>]
  ELSE IF c \in {"U", "W"}
  THEN [st EXCEPT !.week_of_year = <<IntOf(s)>>, !.week_starts_Mon = (c = "W")]
  ELSE IF c = "V" THEN [st EXCEPT !.iso_week = <<IntOf(s)>>]
  ELSE IF c = "z" THEN WithZone(st, ZoneOf(s))
  ELSE st

RECURSIVE ConvertFields(_, _, _)
\* the loop over found_dict, from its i-th group on
ConvertFields(st, found, i) ==
  IF i > Len(found) THEN st
  ELSE ConvertFields(ConvertField(st, found[i][1], found[i][2], found), found, i + 1)

\* date.weekday() of the day of ordinal n: Monday is 0
Weekday(n) == (n + 6) % 7

YearLen(y) == IF IsLeap(y) THEN 366 ELSE 365

\* the day of the year of weekday dow in week week, the year starting on
\* weekday fw (both counted from the first day of the week)
JulianOfWeek(fw, week, dow) ==
  IF week = 0 THEN 1 + dow - fw
  ELSE 1 + ((7 - fw) % 7) + 7 * (week - 1) + dow

\* _calc_julian_from_U_or_W
CalcJulianFromUW(year, week, dow, week_starts_Mon) ==
  IF week_starts_Mon
  THEN JulianOfWeek(Weekday(DaysBeforeYear(year) + 1), week, dow)
  ELSE JulianOfWeek((Weekday(DaysBeforeYear(year) + 1) + 1) % 7, week, (dow + 1) % 7)

\* the datetime of the converted fields on the day ymd
FinishYmd(st, ymd, fix) ==
  IF ~DateTimeOfNumbers((IF fix THEN 1900 ELSE ymd[1]), ymd[2], ymd[3],
                        st.hour, st.minute, st.second, st.fraction).ok
  THEN DateError
  ELSE [DateTimeOfNumbers((IF fix THEN 1900 ELSE ymd[1]), ymd[2], ymd[3],
                          st.hour, st.minute, st.second, st.fraction)
        EXCEPT !.tz = st.tz]

\* the day of the year j of year: date.fromordinal
FinishOrdinal(st, year, j, fix) ==
  IF year < 1 \/ year > MaxYear
     \/ DaysBeforeYear(year) + j < 1 \/ DaysBeforeYear(year) + j > MaxOrdinal
  THEN DateError
  ELSE FinishYmd(st, YmdOfOrdinal(DaysBeforeYear(year) + j), fix)

\* a day of the year before the first belongs to the year before
FinishWrapped(st, year, j, fix) ==
  IF j <= 0 THEN FinishOrdinal(st, year - 1, j + YearLen(year - 1), fix)
  ELSE FinishOrdinal(st, year, j, fix)

\* _calc_julian_from_V: ordinal is the day of the ISO year iy
FinishIsoOrdinal(st, iy, ordinal, fix) ==
  IF ordinal >= 1 THEN FinishWrapped(st, iy, ordinal, fix)
  ELSE IF iy - 1 < 1 THEN DateError
  ELSE FinishWrapped(st, iy - 1,
                     ordinal + DaysBeforeYear(iy) - DaysBeforeYear(iy - 1), fix)

FinishIso(st, iy, fix) ==
  IF iy < 1 THEN DateError
  ELSE FinishIsoOrdinal(st, iy,
         st.iso_week[1] * 7 + (st.weekday[1] + 1)
         - (Weekday(DaysBeforeYear(iy) + 4) + 1 + 3), fix)

\* the day of the year from the week fields, the %j field, or month and day
FinishJulian(st, year, fix) ==
  IF st.julian # <<>> THEN FinishOrdinal(st, year, st.julian[1], fix)
  ELSE IF st.weekday # <<>> /\ st.week_of_year # <<>>
  THEN (IF year < 1 THEN DateError
        ELSE FinishWrapped(st, year,
               CalcJulianFromUW(year, st.week_of_year[1], st.weekday[1],
                                st.week_starts_Mon), fix))
  ELSE IF st.weekday # <<>> /\ st.iso_year # <<>> /\ st.iso_week # <<>>
  THEN FinishIso(st, st.iso_year[1], fix)
  ELSE FinishYmd(st, <<year, st.month, st.day>>, fix)

\* the year 1900 when none was given, 1904 for a February 29th (and 1900
\* again once the day is known)
FinishYear(st) ==
  IF st.year # <<>> THEN FinishJulian(st, st.year[1], FALSE)
  ELSE IF st.month = 2 /\ st.day = 29 THEN FinishJulian(st, 1904, TRUE)
  ELSE FinishJulian(st, 1900, FALSE)

\* the directives of the ISO calendar go together and without the others
IsoFieldsAgree(st) ==
  IF st.year = <<>> /\ st.iso_year # <<>>
  THEN st.iso_week # <<>> /\ st.weekday # <<>> /\ st.julian = <<>>
  ELSE ~(st.week_of_year = <<>> /\ st.iso_week # <<>>)

DateOfFields(st) ==
  IF st.bad \/ ~IsoFieldsAgree(st) THEN DateError ELSE FinishYear(st)

\* the text matched to its end
DateOfMatch(text, match) ==
  IF ~match.ok \/ match.end # Len(text) + 1 THEN DateError
  ELSE DateOfFields(ConvertFields(NoFields, match.found, 1))

DateOfTokens(text, toks) ==
  IF ~ValidTokens(toks) THEN DateError
  ELSE DateOfMatch(text, MatchFrom(toks, 1, text, 1, <<>>))

\* datetime.strptime(text, format)
Strptime(text, format) == DateOfTokens(text, Tokens(format))

\* ------------------------------------------------------------------ data model
\* A CSV row (csv.DictReader) is a function from the header's column names to
\* cell texts.  A Config is a record of the dataclass's fields; an absent
\* Optional[str] is None, an absent Optional[int] is the empty sequence and a
\* present one <<n>>; a dict is a function whose DOMAIN is its key set.

ColDate == <<"D", "a", "t", "e">>
ColDescription == <<"D", "e", "s", "c", "r", "i", "p", "t", "i", "o", "n">>
ColMemo == <<"M", "e", "m", "o">>
ColAmount == <<"A", "m", "o", "u", "n", "t">>
ColCredit == <<"C", "r", "e", "d", "i", "t">>
ColDebit == <<"D", "e", "b", "i", "t">>
ColCheck == <<"C", "h", "e", "c", "k">>
ColRef == <<"R", "e", "f">>

\* the sentinel of additional_uid_column that selects the row's ordinal
Idx == <<"i", "d", "x">>

\* the default destination of a withdrawal
Cash == <<"C", "a", "s", "h">>

NoWindow == <<>>

EmptyDict == [k \in {} |-> <<>>]

\* dict.get(key): None when the key is absent
DictGet(dict, key) == IF key \in DOMAIN dict THEN dict[key] ELSE None

\* Transaction(...): type, source_name and destination_name default to None
Transaction(date, description, amount, account, external_id) ==
  [date |-> date, description |-> description, amount |-> amount,
   account |-> account, external_id |-> external_id,
   type |-> "None", source_name |-> None, destination_name |-> None]

\* ------------------------------------------------------------------ CSV normalizer

\* hashlib.sha256(key.encode()).hexdigest(): the digest is taken as injective
\* and stands for its argument
Sha256Hex(key) == key

\* a value as an f-string renders it: None as the text None, a text as it is
StrOf(v) == IF v = None THEN <<"N", "o", "n", "e">> ELSE v

\* key of _generate_external_id before the disambiguator is appended
ExternalIdKey(transaction) ==
  IsoFormat(transaction.date) \o <<"-">>
  \o FloatStr(transaction.amount) \o <<"-">>
  \o StrOf(transaction.account) \o <<"-">>
  \o StrOf(transaction.description)

\* _generate_external_id
generate_external_id(transaction, additional_uid_value) ==
  Sha256Hex(IF Truthy(additional_uid_value)
            THEN ExternalIdKey(transaction) \o <<"-">> \o additional_uid_value
            ELSE ExternalIdKey(transaction))

\* the amount-scheme check that opens _parse_csv_transactions: TRUE when it
\* raises ValueError
ConfigRejected(config) ==
  /\ config.amount_column = None
  /\ (config.credit_column = None \/ config.debit_column = None)

\* v.strip() if isinstance(v, str) else v: the None of a cell that a short row
\* lacks stays None
StripCell(v) == IF v = None THEN None ELSE Strip(v)

\* row = {k: v.strip() ...}
StripRow(row) == [k \in DOMAIN row |-> StripCell(row[k])]

\* float(cell): a TypeError for the None of a missing cell
FloatOfCell(v) == IF v = None THEN FloatError ELSE ParseFloat(v)

\* datetime.strptime(cell, date_format): a TypeError for the None of a missing
\* cell
StrptimeOfCell(v, date_format) ==
  IF v = None THEN DateError ELSE Strptime(v, date_format)

\* the amount of a (stripped) row
\* 0 - amount when negate, with an error of float() passed on
NegateIf(negate, amount) ==
  IF amount.ok /\ negate THEN ZeroMinus(amount) ELSE amount

ResolveAmount(config, row) ==
  IF config.amount_column # None
  THEN NegateIf(config.invert_amount, FloatOfCell(row[config.amount_column]))
  ELSE IF row[config.credit_column] = <<>>
  THEN NegateIf(TRUE, FloatOfCell(row[config.debit_column]))
  ELSE FloatOfCell(row[config.credit_column])

\* description += row["Check"] raises TypeError: a description that is None
\* and a check number to append
DescriptionRaises(config, row) ==
  /\ ColCheck \in DOMAIN row /\ Truthy(row[ColCheck])
  /\ row[config.description_column] = None

\* the description of a (stripped) row, with its check number appended
AugmentDescription(config, row) ==
  IF ColCheck \in DOMAIN row /\ Truthy(row[ColCheck])
  THEN row[config.description_column] \o row[ColCheck]
  ELSE row[config.description_column]

\* "withdrawal" if amount < 0 else "deposit"
TypeOfAmount(amount) == IF IsNegative(amount) THEN "withdrawal" ELSE "deposit"

\* AdditionalUidValue with the ordinal sentinel giving no disambiguator
AdditionalUidValue_NoOrdinal(config, row, i) ==
  IF Truthy(config.additional_uid_column)
  THEN IF config.additional_uid_column = Idx
       THEN None
       ELSE row[config.additional_uid_column]
  ELSE None

\* the disambiguator of row i (0-based file position)
AdditionalUidValue(config, row, i) ==
  IF Truthy(config.additional_uid_column)
  THEN IF config.additional_uid_column = Idx
       THEN TextOfNat(i)
       ELSE row[config.additional_uid_column]
  ELSE None

\* the outbound mapping, then the inbound mapping, each applied when the row's
\* "Description" cell is a key with a non-empty value
ClassifyOut(account, destination, transaction) ==
  IF Truthy(destination)
  THEN [transaction EXCEPT !.type = "transfer",
                           !.source_name = account,
                           !.destination_name = destination]
  ELSE transaction

ClassifyIn(account, source, transaction) ==
  IF Truthy(source)
  THEN [transaction EXCEPT !.type = "transfer",
                           !.source_name = source,
                           !.destination_name = account]
  ELSE transaction

ClassifyTransfer(config, row, transaction) ==
  ClassifyIn(config.account,
             DictGet(config.transfers_in, row[ColDescription]),
             ClassifyOut(config.account,
                         DictGet(config.transfers_out, row[ColDescription]),
                         transaction))

\* One pass of the generator's loop body over the raw row at 0-based file
\* position i: the transaction it yields, or raised for the ValueError or
\* TypeError it raises.
\* transaction.type = "withdrawal" if transaction.amount < 0 else "deposit"
WithType(transaction) ==
  [transaction EXCEPT !.type = TypeOfAmount(transaction.amount)]

\* transaction.external_id = self._generate_external_id(...)
WithExternalId(transaction, additional_uid_value) ==
  [transaction EXCEPT
     !.external_id = generate_external_id(transaction, additional_uid_value)]

\* the loop body from the Transaction(...) constructor on, given the row's
\* amount and date as parsed
BuildTransaction(config, row, i, amount, date) ==
  IF ~amount.ok \/ ~date.ok \/ DescriptionRaises(config, row)
  THEN [raised |-> TRUE,
        tx |-> Transaction(date, <<>>, amount, config.account, <<>>)]
  ELSE [raised |-> FALSE,
        tx |-> ClassifyTransfer(config, row,
                 WithExternalId(
                   WithType(Transaction(date, AugmentDescription(config, row),
                                        amount, config.account, <<>>)),
                   AdditionalUidValue(config, row, i)))]

ParseStrippedRow(config, row, i) ==
  BuildTransaction(config, row, i, ResolveAmount(config, row),
                   StrptimeOfCell(row[config.date_column], config.date_format))

ParseRow(config, rawrow, i) == ParseStrippedRow(config, StripRow(rawrow), i)

\* EmissionIndex without reversed(): rows visited first to last
EmissionIndex_Forward(n, k) == k

\* reversed(list(enumerate(reader))): the 0-based file position of the k-th
\* row the generator visits (k = 0, 1, ...), in a file of n data rows
EmissionIndex(n, k) == n - 1 - k

\* ------------------------------------------------------------------ ledger gateway
\* The ledger (Firefly III behind /api/v1) is the sequence of the transactions
\* it stores, each the "transactions"[0] object of an accepted create request.
\* A response to a search is "ok" (success, "data" lists the matches),
\* "error_json" (non-success, a JSON object without "data", as Firefly's
\* {"message": ...} error bodies) or "error_body" (non-success, a body that is
\* not JSON); a response to a create is "ok" or "http_error".

SearchResponses == {"ok", "error_json", "error_body"}

CreateResponses == {"ok", "http_error"}

\* the y*10000 + m*100 + d of the date text whose first "-" is at i
LedgerDateKeyAt(text, i) ==
  NatOfText(SubSeq(text, 1, i - 1)) * 10000
  + NatOfText(SubSeq(text, i + 1, i + 2)) * 100
  + NatOfText(SubSeq(text, i + 4, i + 5))

\* the number by which the ledger orders the dates "Y-MM-DD" of a query
LedgerDateKey(text) == LedgerDateKeyAt(text, IndexOf(text, "-"))

\* search external_id_is:<id>
LedgerSearchExternalId(store, external_id) ==
  {n \in 1..Len(store) : store[n].external_id = external_id}

\* search type:transfer amount:.. source_account_is:.. destination_account_is:..
\* -description_is:.. and date_on:.. or date_after:.. date_before:.. (inclusive)
LedgerSearchTransfer(store, q) ==
  {n \in 1..Len(store) :
     /\ store[n].type = q.type
     /\ store[n].amount = q.amount
     /\ store[n].source_name = q.source_account_is
     /\ store[n].destination_name = q.destination_account_is
     /\ store[n].description # q.not_description_is
     /\ IF q.date_on # None
        THEN store[n].date = q.date_on
        ELSE /\ LedgerDateKey(store[n].date) >= LedgerDateKey(q.date_after)
             /\ LedgerDateKey(store[n].date) <= LedgerDateKey(q.date_before)}

\* response.json().get("data", []): the matches of a successful search, none
\* for an error object
ResponseData(response, matches) == IF response = "ok" THEN matches ELSE {}

\* find_transaction_by_external_id that never finds a transaction
find_transaction_by_external_id_NotFound(store, external_id, response) ==
  [raised |-> response = "error_body", found |-> FALSE]

\* _find_transaction_by_external_id: no raise_for_status; response.json() raises
\* on a body that is not JSON
find_transaction_by_external_id(store, external_id, response) ==
  [raised |-> response = "error_body",
   found |-> ResponseData(response, LedgerSearchExternalId(store, external_id)) # {}]

\* TransferQuery without the -description_is exclusion
TransferQuery_NoExclusion(transaction, date_window_days) ==
  [type |-> "transfer",
   amount |-> FloatStr(FloatAbs(transaction.amount)),
   source_account_is |->
     IF Truthy(transaction.source_name) THEN StrOf(transaction.source_name)
     ELSE StrOf(transaction.account),
   destination_account_is |-> StrOf(transaction.destination_name),
   not_description_is |-> None,
   date_on |->
     IF date_window_days = NoWindow THEN Strftime(transaction.date) ELSE None,
   date_after |->
     IF date_window_days = NoWindow THEN None
     ELSE Strftime(AddDays(transaction.date, 0 - date_window_days[1])),
   date_before |->
     IF date_window_days = NoWindow THEN None
     ELSE Strftime(AddDays(transaction.date, date_window_days[1]))]

\* query_params of _find_matching_transfer (when the window does not overflow)
TransferQuery(transaction, date_window_days) ==
  [type |-> "transfer",
   amount |-> FloatStr(FloatAbs(transaction.amount)),
   source_account_is |->
     IF Truthy(transaction.source_name) THEN StrOf(transaction.source_name)
     ELSE StrOf(transaction.account),
   destination_account_is |-> StrOf(transaction.destination_name),
   not_description_is |-> StrOf(transaction.description),
   date_on |->
     IF date_window_days = NoWindow THEN Strftime(transaction.date) ELSE None,
   date_after |->
     IF date_window_days = NoWindow THEN None
     ELSE Strftime(AddDays(transaction.date, 0 - date_window_days[1])),
   date_before |->
     IF date_window_days = NoWindow THEN None
     ELSE Strftime(AddDays(transaction.date, date_window_days[1]))]

\* transaction.date -/+ timedelta(days=date_window_days) leaves the years
\* 1..9999: _find_matching_transfer raises OverflowError before it builds a
\* query
WindowOverflows(transaction, date_window_days) ==
  /\ date_window_days # NoWindow
  /\ \/ ~AddDays(transaction.date, 0 - date_window_days[1]).ok
     \/ ~AddDays(transaction.date, date_window_days[1]).ok

\* _find_matching_transfer
find_matching_transfer(store, transaction, date_window_days, response) ==
  IF WindowOverflows(transaction, date_window_days)
  THEN [raised |-> TRUE, found |-> FALSE]
  ELSE [raised |-> response = "error_body",
        found |-> ResponseData(response,
                    LedgerSearchTransfer(store,
                      TransferQuery(transaction, date_window_days))) # {}]

\* CreateData with the external id left out of the request
CreateData_NoExternalId(transaction) ==
  [type |-> transaction.type,
   date |-> Strftime(transaction.date),
   amount |-> FloatStr(FloatAbs(transaction.amount)),
   description |-> transaction.description,
   external_id |-> <<>>,
   source_name |->
     IF Truthy(transaction.source_name) THEN transaction.source_name
     ELSE transaction.account,
   destination_name |->
     IF Truthy(transaction.destination_name) THEN transaction.destination_name
     ELSE IF IsNegative(transaction.amount) THEN Cash
     ELSE transaction.account]

\* CreateData with the signed amount in place of its absolute value
CreateData_SignedAmount(transaction) ==
  [type |-> transaction.type,
   date |-> Strftime(transaction.date),
   amount |-> FloatStr(transaction.amount),
   description |-> transaction.description,
   external_id |-> transaction.external_id,
   source_name |->
     IF Truthy(transaction.source_name) THEN transaction.source_name
     ELSE transaction.account,
   destination_name |->
     IF Truthy(transaction.destination_name) THEN transaction.destination_name
     ELSE IF IsNegative(transaction.amount) THEN Cash
     ELSE transaction.account]

\* data["transactions"][0] of _create_transaction
CreateData(transaction) ==
  [type |-> transaction.type,
   date |-> Strftime(transaction.date),
   amount |-> FloatStr(FloatAbs(transaction.amount)),
   description |-> transaction.description,
   external_id |-> transaction.external_id,
   source_name |->
     IF Truthy(transaction.source_name) THEN transaction.source_name
     ELSE transaction.account,
   destination_name |->
     IF Truthy(transaction.destination_name) THEN transaction.destination_name
     ELSE IF IsNegative(transaction.amount) THEN Cash
     ELSE transaction.account]

\* POST /api/v1/transactions: an accepted request is stored
LedgerCreate(store, data, response) ==
  IF response = "ok" THEN Append(store, data) ELSE store

\* CreatedIncrement with the increment forgotten
CreatedIncrement_None(response) == 0

\* the counter increment of _create_transaction, which precedes raise_for_status
CreatedIncrement(response) == 1

\* _create_transaction: the counter is incremented, then raise_for_status
create_transaction(store, transaction, response) ==
  [raised |-> response # "ok",
   store |-> LedgerCreate(store, CreateData(transaction), response),
   created |-> CreatedIncrement(response)]

\* ------------------------------------------------------------------ inputs

DateFormat == <<"%", "Y", "-", "%", "m", "-", "%", "d">>

\* the date_format of a statement that writes day/month/year
DateFormatDmy == <<"%", "d", "/", "%", "m", "/", "%", "Y">>

\* Config(account=..., description_column="Description", date_column="Date",
\* date_format="%Y-%m-%d"), every other field at the dataclass's default
DefaultConfig(account) ==
  [account |-> account,
   description_column |-> ColDescription,
   date_column |-> ColDate,
   date_format |-> DateFormat,
   date_window_days |-> NoWindow,
   amount_column |-> None,
   invert_amount |-> FALSE,
   credit_column |-> None,
   debit_column |-> None,
   additional_uid_column |-> None,
   transfers_out |-> EmptyDict,
   transfers_in |-> EmptyDict]

\* one data row under the header Date,Amount,Credit,Debit,Check,Ref,Description,Memo;
\* a cell is None when the row is too short to have it
MkRow(date, description, memo, amount, credit, debit, check, ref) ==
  (ColDate :> date) @@ (ColDescription :> description) @@ (ColMemo :> memo)
  @@ (ColAmount :> amount) @@ (ColCredit :> credit) @@ (ColDebit :> debit)
  @@ (ColCheck :> check) @@ (ColRef :> ref)

AcctA == <<"A">>
AcctB == <<"B">>
AcctC == <<"C">>

DescToB == <<"T", "o", " ", "B">>
DescFromA == <<"F", "r", "o", "m", " ", "A">>
DescXfer == <<"X", "f", "e", "r">>
DescCoffee == <<"C", "o", "f", "f", "e", "e">>

Jan5 == <<"2", "0", "2", "4", "-", "0", "1", "-", "0", "5">>
Jan6 == <<"2", "0", "2", "4", "-", "0", "1", "-", "0", "6">>
BadDate == <<"0", "1", "/", "0", "5">>
Jan5Dmy == <<"0", "5", "/", "0", "1", "/", "2", "0", "2", "4">>
Dec31Dmy == <<"3", "1", "/", "1", "2", "/", "9", "9", "9", "9">>

Minus5 == <<"-", "5", ".", "0", "0">>
Plus5 == <<"5", ".", "0", "0">>
Minus450 == <<"-", "4", ".", "5", "0">>
Plus450 == <<"4", ".", "5", "0">>
Plus5Exp == <<"5", "e", "0">>
BadAmount == <<"n", "/", "a">>

\* an amount with more digits than a float holds
LongMinus450 ==
  <<"-", "4", ".", "5", "0", "0", "0", "0", "0", "0", "0", "0", "0", "0", "0",
    "0", "0", "0", "0", "1">>
Ref1 == <<"r", "1">>

\* statement rows of account A: two outbound transfers to B of the same
\* amount and date, a card payment, a row whose amount does not parse, and
\* the card payment with its amount written to nineteen digits
RowToB == MkRow(Jan5, <<" ">> \o DescToB, DescCoffee, Minus5, <<>>, Plus5, <<>>, Ref1)
RowXferOut == MkRow(Jan5, DescXfer, DescCoffee, Minus5, <<>>, Plus5, <<>>, Ref1)
RowCoffee == MkRow(Jan6, DescCoffee, DescCoffee, Minus450, <<>>, Plus450, <<>>, Ref1)
RowBad == MkRow(Jan5, DescCoffee, DescCoffee, BadAmount, <<>>, BadAmount, <<>>, Ref1)
RowLong == MkRow(Jan6, DescCoffee, DescCoffee, LongMinus450, <<>>, Plus450, <<>>, Ref1)

\* the outbound transfer on a statement that describes it in its Memo column
RowMemoToB == MkRow(Jan5, DescCoffee, DescToB, Minus5, <<>>, Plus5, <<>>, Ref1)

\* statement rows of account B, whose bank writes day/month/year: the inbound
\* legs, and an inbound leg on the last day of the calendar
RowFromA ==
  MkRow(Jan5Dmy, <<"\t">> \o DescFromA, DescCoffee, Plus5, Plus5, <<>>, <<>>, Ref1)
RowXferIn ==
  MkRow(Jan5Dmy, DescXfer, DescCoffee, Plus5, Plus5Exp, <<>>, <<>>, Ref1)
RowLastDay ==
  MkRow(Dec31Dmy, DescFromA, DescCoffee, Plus5, Plus5, <<>>, <<>>, Ref1)

ConfigA ==
  [DefaultConfig(AcctA) EXCEPT
     !.amount_column = ColAmount,
     !.transfers_out = (DescToB :> AcctB) @@ (DescXfer :> AcctB)]

ConfigAIdx == [ConfigA EXCEPT !.additional_uid_column = Idx]

\* ConfigA for the statement whose descriptions are in its Memo column
ConfigAMemo == [ConfigA EXCEPT !.description_column = ColMemo]

ConfigB ==
  [DefaultConfig(AcctB) EXCEPT
     !.date_format = DateFormatDmy,
     !.date_window_days = <<1>>,
     !.credit_column = ColCredit,
     !.debit_column = ColDebit,
     !.transfers_in = (DescFromA :> AcctA) @@ (DescXfer :> AcctA)]

\* the amount schemes a Config can state beside ConfigA's and ConfigB's
ConfigNoScheme == DefaultConfig(AcctA)
ConfigCreditOnly == [DefaultConfig(AcctA) EXCEPT !.credit_column = ColCredit]
ConfigBothSchemes ==
  [ConfigA EXCEPT !.credit_column = ColCredit, !.debit_column = ColDebit,
                  !.invert_amount = TRUE]

FilesA ==
  {<<RowToB>>, <<RowXferOut>>, <<RowCoffee>>, <<RowBad>>, <<RowLong>>,
   <<RowToB, RowToB>>, <<RowToB, RowXferOut>>, <<RowBad, RowToB>>,
   <<RowCoffee, RowBad>>}

FilesB ==
  {<<RowFromA>>, <<RowXferIn>>, <<RowFromA, RowXferIn>>, <<RowLastDay>>, <<>>}

\* the imports of the scenario: statements of A and of B, each under its
\* account's Config, the statement of A that describes its rows in the Memo
\* column, and one statement under each remaining amount scheme
ScenarioInputs ==
  (FilesA \X {ConfigA, ConfigAIdx})
  \cup (FilesB \X {ConfigB})
  \cup {<<<<RowMemoToB>>, ConfigAMemo>>}
  \cup ({<<RowToB, RowCoffee>>}
        \X {ConfigNoScheme, ConfigCreditOnly, ConfigBothSchemes})

MaxRuns == 2

\* ------------------------------------------------------------------ import orchestrator

Call(op, external_id, response) ==
  [op |-> op, external_id |-> external_id, response |-> response]

\* What the body of import_from_csv's loop does with one transaction: the
\* exception that leaves it ("None" when it completes), the state the
\* transaction ends in, the ledger afterwards, the increments of the three
\* counters, and the gateway calls made.
Result(exception, state, store, created, skipped, matched, made) ==
  [raised |-> exception, state |-> state, store |-> store, created |-> created,
   skipped |-> skipped, matched |-> matched, calls |-> made]

AfterCreate(made, create) ==
  Result(IF create.raised THEN "HTTPError" ELSE "None",
         IF create.raised THEN "Pending" ELSE "Created",
         create.store, create.created, 0, 0, made)

\* self._create_transaction(transaction)
CreateStep(store, transaction, made, r3) ==
  AfterCreate(Append(made, Call("create_transaction", transaction.external_id, r3)),
              create_transaction(store, transaction, r3))

AfterTransferCheck(store, transaction, made, r3, match) ==
  IF match.raised
  THEN Result("JSONDecodeError", "Pending", store, 0, 0, 0, made)
  ELSE IF match.found
  THEN Result("None", "Matched-Transfer", store, 0, 0, 1, made)
  ELSE CreateStep(store, transaction, made, r3)

AfterDuplicateCheck(store, transaction, date_window_days, made, r2, r3, dup) ==
  IF dup.raised
  THEN Result("JSONDecodeError", "Pending", store, 0, 0, 0, made)
  ELSE IF dup.found
  THEN Result("None", "Skipped-Duplicate", store, 0, 1, 0, made)
  ELSE IF transaction.type = "transfer"
  THEN (IF WindowOverflows(transaction, date_window_days)
        THEN Result("OverflowError", "Pending", store, 0, 0, 0, made)
        ELSE AfterTransferCheck(
               store, transaction,
               Append(made, Call("find_matching_transfer", transaction.external_id, r2)),
               r3, find_matching_transfer(store, transaction, date_window_days, r2)))
  ELSE CreateStep(store, transaction, made, r3)

\* the loop body of import_from_csv for one transaction, against the ledger
\* `store`, with the gateway's responses to the (at most three) calls it makes
ProcessOne(store, transaction, date_window_days, r1, r2, r3) ==
  AfterDuplicateCheck(
    store, transaction, date_window_days,
    <<Call("find_transaction_by_external_id", transaction.external_id, r1)>>,
    r2, r3,
    find_transaction_by_external_id(store, transaction.external_id, r1))

VARIABLES
  ledger,                 \* the transactions the ledger stores
  csv_file,               \* the data rows of the file being imported
  csv_config,             \* the Config of the import
  pc,                     \* "idle" | "next" | "body" | "done" | "error"
  pos,                    \* how many rows the generator has visited
  current,                \* the transaction the generator yielded last
  transactions_created,   \* the importer's three counters
  transactions_skipped,
  transfers_matched,
  raised,                 \* the exception that ended the import, or "None"
  printed,                \* <<>>, or the summary the import printed
  calls,                  \* the gateway calls of this import, in order
  outcomes,               \* for each row fully processed: position, transaction, state
  start,                  \* ledger and counters when this import began
  previous,               \* what is remembered of the import before this one
  runs                    \* imports begun so far

vars ==
  <<ledger, csv_file, csv_config, pc, pos, current, transactions_created,
    transactions_skipped, transfers_matched, raised, printed, calls, outcomes,
    start, previous, runs>>

Counters ==
  [created |-> transactions_created, skipped |-> transactions_skipped,
   matched |-> transfers_matched]

NoTransaction == [i |-> 0, tx |-> Transaction(DateError, <<>>, FloatError, None, <<>>)]

NoPrevious ==
  [pc |-> "idle", csv_file |-> <<>>, csv_config |-> DefaultConfig(None),
   outcomes |-> <<>>, calls |-> <<>>, start_ledger |-> <<>>,
   same_input |-> FALSE]

\* FireflyImporter.__init__: the three counters start at zero; no import yet
InitWith(store) ==
  /\ ledger = store
  /\ csv_file = <<>>
  /\ csv_config = DefaultConfig(None)
  /\ pc = "idle"
  /\ pos = 0
  /\ current = NoTransaction
  /\ transactions_created = 0
  /\ transactions_skipped = 0
  /\ transfers_matched = 0
  /\ raised = "None"
  /\ printed = <<>>
  /\ calls = <<>>
  /\ outcomes = <<>>
  /\ start = [ledger |-> store, created |-> 0, skipped |-> 0, matched |-> 0]
  /\ previous = NoPrevious
  /\ runs = 0

\* no import is in progress on this importer, and fewer than `limit` were begun
CanStart(limit) == pc \in {"idle", "done", "error"} /\ runs < limit

\* import_from_csv(csv_file, csv_config) is called: the generator is created,
\* none of its code has run yet
StartImport(file, config, limit) ==
  /\ CanStart(limit)
  /\ csv_file' = file
  /\ csv_config' = config
  /\ pc' = "next"
  /\ pos' = 0
  /\ current' = NoTransaction
  /\ raised' = "None"
  /\ printed' = <<>>
  /\ calls' = <<>>
  /\ outcomes' = <<>>
  /\ start' = [ledger |-> ledger, created |-> transactions_created,
               skipped |-> transactions_skipped, matched |-> transfers_matched]
  /\ previous' = [pc |-> pc, csv_file |-> csv_file, csv_config |-> csv_config,
                  outcomes |-> outcomes, calls |-> calls,
                  start_ledger |-> start.ledger,
                  same_input |-> file = csv_file /\ config = csv_config]
  /\ runs' = runs + 1
  /\ UNCHANGED <<ledger, transactions_created, transactions_skipped,
                 transfers_matched>>

\* the import ends with `exception` propagating out of import_from_csv
Abort(exception) ==
  /\ pc' = "error"
  /\ raised' = exception
  /\ UNCHANGED <<ledger, csv_file, csv_config, pos, current,
                 transactions_created, transactions_skipped, transfers_matched,
                 printed, calls, outcomes, start, previous, runs>>

\* the first next() of the generator: the amount-scheme check raises ValueError
RaiseConfigError ==
  /\ pc = "next"
  /\ pos = 0
  /\ ConfigRejected(csv_config)
  /\ Abort("ConfigError")

\* the row the generator visits next
NextIndex == EmissionIndex(Len(csv_file), pos)

NextParsed == ParseRow(csv_config, csv_file[NextIndex + 1], NextIndex)

\* whether next() of the generator reaches a further row
HasNext == pc = "next" /\ ~ConfigRejected(csv_config) /\ pos < Len(csv_file)

\* next() of the generator reaches a row whose amount or date does not parse
RaiseParseError ==
  /\ HasNext
  /\ NextParsed.raised
  /\ Abort("ParseError")

Yield(i, transaction) ==
  /\ current' = [i |-> i, tx |-> transaction]
  /\ pos' = pos + 1
  /\ pc' = "body"
  /\ UNCHANGED <<ledger, csv_file, csv_config, transactions_created,
                 transactions_skipped, transfers_matched, raised, printed,
                 calls, outcomes, start, previous, runs>>

\* next() of the generator yields the transaction of the row it visits
YieldTransaction ==
  /\ HasNext
  /\ ~NextParsed.raised
  /\ Yield(NextIndex, NextParsed.tx)

Apply(res) ==
  /\ ledger' = res.store
  /\ transactions_created' = transactions_created + res.created
  /\ transactions_skipped' = transactions_skipped + res.skipped
  /\ transfers_matched' = transfers_matched + res.matched
  /\ calls' = calls \o res.calls
  /\ raised' = res.raised
  /\ pc' = IF res.raised = "None" THEN "next" ELSE "error"
  /\ outcomes' = IF res.raised = "None"
                 THEN Append(outcomes, [i |-> current.i, tx |-> current.tx,
                                        state |-> res.state])
                 ELSE outcomes
  /\ UNCHANGED <<csv_file, csv_config, pos, current, printed, start, previous,
                 runs>>

\* the loop body runs on the transaction the generator yielded
ProcessTransaction(r1, r2, r3) ==
  /\ pc = "body"
  /\ Apply(ProcessOne(ledger, current.tx, csv_config.date_window_days, r1, r2, r3))

\* the generator is exhausted: the three counters are printed
PrintSummary ==
  /\ pc = "next"
  /\ ~ConfigRejected(csv_config)
  /\ pos = Len(csv_file)
  /\ pc' = "done"
  /\ printed' = <<Counters>>
  /\ UNCHANGED <<ledger, csv_file, csv_config, pos, current,
                 transactions_created, transactions_skipped, transfers_matched,
                 raised, calls, outcomes, start, previous, runs>>

Init == InitWith(<<>>)

Next ==
  \/ (CanStart(MaxRuns)
      /\ \E in \in ScenarioInputs : StartImport(in[1], in[2], MaxRuns))
  \/ RaiseConfigError
  \/ RaiseParseError
  \/ YieldTransaction
  \/ \E r1 \in SearchResponses, r2 \in SearchResponses, r3 \in CreateResponses :
       ProcessTransaction(r1, r2, r3)
  \/ PrintSummary

Spec == Init /\ [][Next]_vars

\* ------------------------------------------------------------------ the normalizer alone
\* SpecNorm runs the generator _parse_csv_transactions by itself, over every
\* file of up to MaxRows rows and every Config of a product of cells and
\* settings; its consumer takes each transaction as yielded (state "Pending").

MaxRows == 2

Zero == <<"0", ".", "0", "0">>
Check7 == <<"7">>

\* five in the digits of another script
PersianMinus5 == <<"-", "۵", ".", "۰", "۰">>
PersianPlus5 == <<"۵", ".", "۰", "۰">>

DescNone == <<"N", "o", "n", "e">>

\* Amount, Credit and Debit cells of one row, as a bank states one movement
AmountCells ==
  {<<Minus5, <<>>, Plus5>>, <<Plus5, Plus5, <<>>>>, <<Zero, <<>>, Zero>>,
   <<PersianMinus5, <<>>, PersianPlus5>>}

\* rows that end before the Description cell, without and with a check
\* number, and the row that spells the text None there
RowShort == MkRow(Jan5, None, None, Minus5, <<>>, Plus5, <<>>, Ref1)
RowShortCheck == MkRow(Jan5, None, None, Minus5, <<>>, Plus5, Check7, Ref1)
RowNoneText == MkRow(Jan5, DescNone, DescNone, Minus5, <<>>, Plus5, <<>>, Ref1)

\* a row whose description contains the separator of the identity key and
\* whose Ref cell is empty
RowDashed ==
  MkRow(Jan5, DescCoffee \o <<"-">> \o Ref1, DescCoffee, Minus5, <<>>, Plus5,
        <<>>, <<>>)

NormRows ==
  {MkRow(Jan5, d, DescCoffee, a[1], a[2], a[3], c, Ref1) :
     d \in {<<" ">> \o DescToB \o <<" ">>, DescCoffee},
     a \in AmountCells,
     c \in {<<>>, Check7}}
  \cup {RowBad, MkRow(BadDate, DescToB, DescCoffee, Minus5, <<>>, Plus5, <<>>, Ref1),
        RowDashed, RowShort, RowShortCheck, RowNoneText}

NormFiles == UNION {[1..n -> NormRows] : n \in 0..MaxRows}

AmountSchemes ==
  {[DefaultConfig(AcctA) EXCEPT !.amount_column = ColAmount],
   [DefaultConfig(AcctA) EXCEPT !.amount_column = ColAmount,
                                !.invert_amount = TRUE],
   [DefaultConfig(AcctA) EXCEPT !.credit_column = ColCredit,
                                !.debit_column = ColDebit]}

TransferMaps ==
  {<<EmptyDict, EmptyDict>>,
   <<(DescToB :> AcctB), EmptyDict>>,
   <<(DescToB :> AcctB), (DescToB :> AcctC)>>,
   <<(DescCoffee :> AcctB), EmptyDict>>}

NormConfigs ==
  {[c EXCEPT !.description_column = d,
             !.additional_uid_column = u,
             !.transfers_out = t[1],
             !.transfers_in = t[2]] :
     c \in AmountSchemes,
     d \in {ColDescription, ColMemo},
     u \in {None, Idx, ColRef},
     t \in TransferMaps}

\* the consumer of the generator takes the transaction it yielded
Consume ==
  /\ pc = "body"
  /\ pc' = "next"
  /\ outcomes' = Append(outcomes, [i |-> current.i, tx |-> current.tx,
                                   state |-> "Pending"])
  /\ UNCHANGED <<ledger, csv_file, csv_config, pos, current,
                 transactions_created, transactions_skipped, transfers_matched,
                 raised, printed, calls, start, previous, runs>>

NextNorm ==
  \/ (CanStart(1)
      /\ \E file \in NormFiles, config \in NormConfigs :
           StartImport(file, config, 1))
  \/ RaiseParseError
  \/ YieldTransaction
  \/ Consume

SpecNorm == Init /\ [][NextNorm]_vars


\* ------------------------------------------------------------------ claims: helpers

AllOk(made) == \A n \in 1..Len(made) : made[n].response = "ok"

CreateCalls(made) == {n \in 1..Len(made) : made[n].op = "create_transaction"}

StatesOf(outs) == {outs[n].state : n \in 1..Len(outs)}

CountState(outs, state) == Cardinality({n \in 1..Len(outs) : outs[n].state = state})

\* the import in progress completed and was preceded by a completed import
TwoCompleted == pc = "done" /\ previous.pc = "done"

\* ------------------------------------------------------------------ C1

\* C1 (idempotent re-import): when an import that ran to completion is
\* followed by an import of the same file under the same Config, and every
\* lookup of the second import succeeds, the second import runs to completion
\* with no create request, every row Skipped-Duplicate or Matched-Transfer,
\* and the ledger as the first import left it.
C1_IdempotentReimport ==
  (TwoCompleted /\ previous.same_input /\ AllOk(calls))
  => /\ CreateCalls(calls) = {}
     /\ ledger = start.ledger
     /\ transactions_created = start.created
     /\ Len(outcomes) = Len(csv_file)
     /\ StatesOf(outcomes) \subseteq {"Skipped-Duplicate", "Matched-Transfer"}

\* a completed re-import in which one row was skipped and one matched
C1_Witness ==
  /\ TwoCompleted /\ previous.same_input /\ AllOk(calls)
  /\ StatesOf(outcomes) = {"Skipped-Duplicate", "Matched-Transfer"}
  /\ "Created" \in StatesOf(previous.outcomes)

\* ------------------------------------------------------------------ C2

\* the value of the configured description column, before the check number
RawDescription(config, row) == StripCell(row[config.description_column])

\* no transfer from `source` to `destination` of this amount in the ledger
NoTransferOf(store, source, destination, amount) ==
  \A n \in 1..Len(store) :
    ~(/\ store[n].type = "transfer"
      /\ store[n].source_name = source
      /\ store[n].destination_name = destination
      /\ store[n].amount = FloatStr(FloatAbs(amount)))

NoExternalId(store, external_id) ==
  \A n \in 1..Len(store) : store[n].external_id # external_id

\* Two one-row statements were imported to completion one after the other,
\* the first of account A (previous), the second of account B (current); the
\* rows have the same date and amount magnitude, and the ledger held neither
\* leg before the first.
TwoLegsImported ==
  /\ TwoCompleted
  /\ Len(previous.csv_file) = 1 /\ Len(csv_file) = 1
  /\ previous.csv_config.account # csv_config.account
  /\ FloatAbs(previous.outcomes[1].tx.amount) = FloatAbs(outcomes[1].tx.amount)
  /\ previous.outcomes[1].tx.date = outcomes[1].tx.date
  /\ NoExternalId(previous.start_ledger, previous.outcomes[1].tx.external_id)
  /\ NoExternalId(previous.start_ledger, outcomes[1].tx.external_id)
  /\ NoTransferOf(previous.start_ledger, previous.csv_config.account,
                  csv_config.account, outcomes[1].tx.amount)

\* exactly one create (A's leg, as a transfer A -> B) and one transfer match
OneCreateOneMatch ==
  /\ previous.outcomes[1].state = "Created"
  /\ outcomes[1].state = "Matched-Transfer"
  /\ Cardinality(CreateCalls(previous.calls)) = 1
  /\ CreateCalls(calls) = {}
  /\ ledger = Append(previous.start_ledger, CreateData(previous.outcomes[1].tx))
  /\ ledger[Len(ledger)].type = "transfer"
  /\ ledger[Len(ledger)].source_name = previous.csv_config.account
  /\ ledger[Len(ledger)].destination_name = csv_config.account

\* C2 (transfer symmetry): A's row has a description that is a
\* transfers_out key mapping to B, B's row a description that is a
\* transfers_in key mapping to A, same date and amount magnitude, ledger
\* holding neither leg: A's leg is created as a transfer A -> B and B's leg is
\* matched, never created.
C2_TransferSymmetry ==
  (/\ TwoLegsImported
   /\ DictGet(previous.csv_config.transfers_out,
              RawDescription(previous.csv_config, previous.csv_file[1]))
        = csv_config.account
   /\ DictGet(csv_config.transfers_in, RawDescription(csv_config, csv_file[1]))
        = previous.csv_config.account)
  => OneCreateOneMatch

\* ------------------------------------------------------------------ C3

\* The first two transactions of an import are transfer-classified, with the
\* same route, date and amount magnitude; every gateway call succeeded; the
\* ledger at the start held neither of them, nor any transfer of that route
\* and amount.
TwoTransfersImported ==
  /\ pc # "error"
  /\ Len(outcomes) >= 2
  /\ AllOk(calls)
  /\ outcomes[1].tx.type = "transfer" /\ outcomes[2].tx.type = "transfer"
  /\ outcomes[1].tx.source_name = outcomes[2].tx.source_name
  /\ outcomes[1].tx.destination_name = outcomes[2].tx.destination_name
  /\ FloatAbs(outcomes[1].tx.amount) = FloatAbs(outcomes[2].tx.amount)
  /\ outcomes[1].tx.date = outcomes[2].tx.date
  /\ NoExternalId(start.ledger, outcomes[1].tx.external_id)
  /\ NoExternalId(start.ledger, outcomes[2].tx.external_id)
  /\ NoTransferOf(start.ledger, outcomes[1].tx.source_name,
                  outcomes[1].tx.destination_name, outcomes[1].tx.amount)

\* C3 as stated (description exclusion): two transfers of identical amount,
\* date and route but different descriptions, imported one after the other
\* into a ledger holding neither, both end Created.
C3_Original ==
  (TwoTransfersImported
   /\ outcomes[1].tx.description # outcomes[2].tx.description)
  => (outcomes[1].state = "Created" /\ outcomes[2].state = "Created")

\* C3 as amended: the first ends Created; the second ends Created only when
\* its description equals the first's (and its external id differs, else it
\* is Skipped-Duplicate); with a different description it is resolved as
\* Matched-Transfer against the first.
C3_DescriptionExclusion ==
  TwoTransfersImported
  => /\ outcomes[1].state = "Created"
     /\ outcomes[2].state =
          IF outcomes[1].tx.external_id = outcomes[2].tx.external_id
          THEN "Skipped-Duplicate"
          ELSE IF outcomes[1].tx.description = outcomes[2].tx.description
          THEN "Created"
          ELSE "Matched-Transfer"

\* two same-route transfers with the same description and distinct ids, both created
C3_Witness ==
  /\ TwoTransfersImported
  /\ outcomes[1].tx.description = outcomes[2].tx.description
  /\ outcomes[1].tx.external_id # outcomes[2].tx.external_id
  /\ outcomes[2].state = "Created"

\* ------------------------------------------------------------------ C4

\* C4 (one terminal state and one counter per transaction): while no
\* exception has ended the import, every transaction the loop body has
\* finished is in exactly one of the three terminal states and each counter
\* has grown by the number of transactions in its state; when the import
\* completes, the three increments add up to the number of data rows.
C4_OneCounterPerTransaction ==
  pc \in {"next", "body", "done"}
  => /\ StatesOf(outcomes)
          \subseteq {"Skipped-Duplicate", "Matched-Transfer", "Created"}
     /\ transactions_created - start.created = CountState(outcomes, "Created")
     /\ transactions_skipped - start.skipped
          = CountState(outcomes, "Skipped-Duplicate")
     /\ transfers_matched - start.matched
          = CountState(outcomes, "Matched-Transfer")
     /\ (pc = "next" => Len(outcomes) = pos)
     /\ (pc = "done" =>
           /\ Len(outcomes) = Len(csv_file)
           /\ (transactions_created - start.created)
              + (transactions_skipped - start.skipped)
              + (transfers_matched - start.matched) = Len(csv_file))

\* a completed import of two rows ending in different states, on an importer
\* whose counters were not zero when it began
C4_Witness ==
  /\ pc = "done"
  /\ Len(csv_file) = 2
  /\ Cardinality(StatesOf(outcomes)) = 2
  /\ start.created + start.skipped + start.matched > 0

\* ------------------------------------------------------------------ C5

\* C5 (gateway errors are fatal): a non-success response to any gateway call
\* ends the import at that call: it is the last call made, the import has
\* failed and no summary was printed.
C5_GatewayErrorsFatal ==
  \A n \in 1..Len(calls) :
    calls[n].response # "ok"
    => (n = Len(calls) /\ pc = "error" /\ printed = <<>>)

\* ------------------------------------------------------------------ C6

\* C6 (parse errors leave no partial results): when an import is ended by an
\* unparseable date or amount, no create request was issued for any row of
\* the file and the ledger is as it was when the import began.
C6_ParseErrorNoPartialResults ==
  raised = "ParseError" => (CreateCalls(calls) = {} /\ ledger = start.ledger)

\* ------------------------------------------------------------------ C7

HasAmountScheme(config) == config.amount_column # None

HasCreditDebitScheme(config) ==
  config.credit_column # None /\ config.debit_column # None

\* the import was refused before any row: nothing visited, no gateway call
RefusedBeforeAnyRow ==
  /\ pc \in {"next", "error"}
  /\ pc = "error" => raised = "ConfigError"
  /\ pos = 0 /\ calls = <<>> /\ outcomes = <<>> /\ ledger = start.ledger

\* C7 (amount-scheme validation): a Config that does not fully specify
\* exactly one amount scheme (neither scheme, or amount_column together with
\* the credit/debit pair) is rejected with a configuration error before any
\* row is processed and before any gateway call.
C7_AmountSchemeValidation ==
  (pc # "idle"
   /\ HasAmountScheme(csv_config) = HasCreditDebitScheme(csv_config))
  => RefusedBeforeAnyRow

\* ------------------------------------------------------------------ C8

\* two transactions agree on date, amount, account and description
SameKeyFields(a, b) ==
  /\ a.date = b.date
  /\ a.amount = b.amount
  /\ a.account = b.account
  /\ a.description = b.description

\* C8 (ordinal disambiguation): in an import under a Config whose
\* additional_uid_column is "idx", any two rows at different file positions
\* that agree on date, amount, account and description have different
\* external ids, and when the ledger held neither id before the import
\* neither row is Skipped-Duplicate.
C8_OrdinalDisambiguation ==
  csv_config.additional_uid_column = Idx
  => \A m \in 1..Len(outcomes), n \in 1..Len(outcomes) :
       (/\ outcomes[m].i # outcomes[n].i
        /\ SameKeyFields(outcomes[m].tx, outcomes[n].tx))
       => /\ outcomes[m].tx.external_id # outcomes[n].tx.external_id
          /\ (/\ NoExternalId(start.ledger, outcomes[m].tx.external_id)
              /\ NoExternalId(start.ledger, outcomes[n].tx.external_id))
             => /\ outcomes[m].state # "Skipped-Duplicate"
                /\ outcomes[n].state # "Skipped-Duplicate"

\* a file of two identical rows was imported under "idx": both were created
C8_Witness ==
  /\ pc = "done"
  /\ csv_config.additional_uid_column = Idx
  /\ Len(outcomes) = 2
  /\ csv_file[1] = csv_file[2]
  /\ SameKeyFields(outcomes[1].tx, outcomes[2].tx)
  /\ outcomes[1].tx.external_id # outcomes[2].tx.external_id
  /\ outcomes[1].state = "Created"
  /\ outcomes[2].state = "Created"

\* ------------------------------------------------------------------ C9

\* the amount_column Config that is otherwise identical to `config`
AmountConfig(config) ==
  [config EXCEPT !.amount_column = ColAmount,
                 !.credit_column = None,
                 !.debit_column = None,
                 !.invert_amount = FALSE]

\* the text of -v for the text of v
NegText(text) ==
  IF text # <<>> /\ text[1] = "-" THEN Tail(text) ELSE <<"-">> \o text

\* the row whose Amount cell states the movement of `row`'s Credit and Debit
\* cells: +credit when the credit cell is not empty, -debit when it is
AmountRow(row) ==
  [row EXCEPT ![ColAmount] =
     IF Strip(row[ColCredit]) = <<>> THEN NegText(Strip(row[ColDebit]))
     ELSE row[ColCredit]]

\* two transactions agree on amount, type, description, account, external_id
SameTransaction(a, b) ==
  /\ a.amount = b.amount
  /\ a.type = b.type
  /\ a.description = b.description
  /\ a.account = b.account
  /\ a.external_id = b.external_id

\* C9 (credit/debit equivalence): every transaction the normalizer yields
\* under a credit/debit Config is the transaction it yields for the same row
\* with amount = -debit (credit cell empty) or amount = +credit, under the
\* otherwise identical amount_column Config with invert_amount false.
C9_CreditDebitEquivalence ==
  csv_config.amount_column = None
  => \A n \in 1..Len(outcomes) :
       SameTransaction(outcomes[n].tx,
                       ParseRow(AmountConfig(csv_config),
                                AmountRow(csv_file[outcomes[n].i + 1]),
                                outcomes[n].i).tx)

\* ------------------------------------------------------------------ C10

\* the keys of the two transfer mappings
TransferKeys(config) == DOMAIN config.transfers_out \cup DOMAIN config.transfers_in

\* C10 (sign convention): every transaction the normalizer yields whose raw
\* description (the configured description column's value) is a key of
\* neither transfers_out nor transfers_in is a withdrawal when its amount
\* is < 0 and a deposit when it is >= 0, and its type is never unset.
C10_SignConvention ==
  \A n \in 1..Len(outcomes) :
    /\ outcomes[n].tx.type # "None"
    /\ RawDescription(csv_config, csv_file[outcomes[n].i + 1])
         \notin TransferKeys(csv_config)
       => outcomes[n].tx.type =
            IF IsNegative(outcomes[n].tx.amount) THEN "withdrawal" ELSE "deposit"

\* ------------------------------------------------------------------ C11

\* C11 (outbound precedence): every transaction the normalizer yields for a
\* row whose description is a key of both transfers_out and transfers_in is
\* a transfer from the Config's own account to transfers_out[description].
C11_OutboundPrecedence ==
  \A n \in 1..Len(outcomes) :
    (/\ RawDescription(csv_config, csv_file[outcomes[n].i + 1])
          \in DOMAIN csv_config.transfers_out
     /\ RawDescription(csv_config, csv_file[outcomes[n].i + 1])
          \in DOMAIN csv_config.transfers_in)
    => /\ outcomes[n].tx.type = "transfer"
       /\ outcomes[n].tx.source_name = csv_config.account
       /\ outcomes[n].tx.destination_name =
            csv_config.transfers_out[
              RawDescription(csv_config, csv_file[outcomes[n].i + 1])]

\* ------------------------------------------------------------------ C12

\* C12 (duplicate check dominates): when the loop body runs to its end on a
\* transaction whose external id the ledger already holds, the transaction
\* ends Skipped-Duplicate, the only gateway call made for it is the lookup by
\* external id, and the ledger, the created counter and the transfers-matched
\* counter are unchanged.
C12_DuplicateCheckDominates ==
  [][(/\ pc = "body"
      /\ ~NoExternalId(ledger, current.tx.external_id)
      /\ pc' = "next")
     => /\ outcomes' = Append(outcomes, [i |-> current.i, tx |-> current.tx,
                                         state |-> "Skipped-Duplicate"])
        /\ Len(calls') = Len(calls) + 1
        /\ ledger' = ledger
        /\ transactions_created' = transactions_created
        /\ transfers_matched' = transfers_matched]_vars

\* ------------------------------------------------------------------ C13

\* the text ends with "-" followed by the decimal text of i
EndsWithOrdinal(text, i) ==
  /\ Len(text) > Len(TextOfNat(i))
  /\ SubSeq(text, Len(text) - Len(TextOfNat(i)), Len(text))
       = <<"-">> \o TextOfNat(i)

\* the processed transaction `out` is the one built from the row at 0-based
\* file position i of `file`, its disambiguator under "idx" the text of i
BuiltFromRow(out, i, file, config) ==
  /\ out.i = i
  /\ out.tx = ParseRow(config, file[i + 1], i).tx
  /\ out.tx.date = Strptime(Strip(file[i + 1][config.date_column]), config.date_format)
  /\ config.additional_uid_column = Idx
     => /\ out.tx.external_id = ExternalIdKey(out.tx) \o <<"-">> \o TextOfNat(i)
        /\ EndsWithOrdinal(out.tx.external_id, i)

\* C13 (reversed emission with original index): in a file of n data rows the
\* k-th transaction the orchestrator processes (k = 0..n-1) is built from
\* file row n-1-k, and under the ordinal sentinel its disambiguator is the
\* text of n-1-k; the transaction in the loop body is the one of that row.
C13_ReversedEmission ==
  /\ \A k \in 0..(Len(outcomes) - 1) :
       BuiltFromRow(outcomes[k + 1], Len(csv_file) - 1 - k, csv_file, csv_config)
  /\ pc = "body"
     => /\ pos = Len(outcomes) + 1
        /\ current.i = Len(csv_file) - pos
        /\ current.tx = ParseRow(csv_config, csv_file[current.i + 1], current.i).tx

\* a file of two different rows was imported under "idx": the last row was
\* processed first, with ordinal 1, the first row second, with ordinal 0
C13_Witness ==
  /\ pc = "done"
  /\ csv_config.additional_uid_column = Idx
  /\ Len(csv_file) = 2
  /\ csv_file[1] # csv_file[2]
  /\ Len(outcomes) = 2
  /\ outcomes[1].tx.description = Strip(csv_file[2][ColDescription])
  /\ outcomes[2].tx.description = Strip(csv_file[1][ColDescription])
  /\ EndsWithOrdinal(outcomes[1].tx.external_id, 1)
  /\ EndsWithOrdinal(outcomes[2].tx.external_id, 0)

\* ------------------------------------------------------------------ C14

\* the create request `data` of transaction `tx` carries the absolute amount
\* and, for a non-transfer, the own account as source and "Cash" (amount < 0)
\* or the own account (amount >= 0) as destination; for a transfer, the
\* source and destination the classifier set
RequestDefaults(data, tx, config) ==
  /\ data.amount = FloatStr([tx.amount EXCEPT !.neg = FALSE])
  /\ data.amount[1] # "-"
  /\ tx.type # "transfer"
     => /\ data.source_name = config.account
        /\ data.destination_name =
             IF tx.amount.neg /\ (tx.amount.kind = "inf" \/ tx.amount.digits # <<>>)
             THEN Cash ELSE config.account
  /\ tx.type = "transfer"
     => /\ data.source_name = tx.source_name
        /\ data.destination_name = tx.destination_name

\* C14 (create-request defaults): the create request of every transaction
\* that reaches the loop body, and the ledger's record of every transaction
\* created in this import, carries the absolute amount and the source and
\* destination names of RequestDefaults.
C14_CreateRequestDefaults ==
  /\ pc = "body" => RequestDefaults(CreateData(current.tx), current.tx, csv_config)
  /\ \A n \in 1..Len(outcomes) :
       outcomes[n].state = "Created"
       => \E m \in 1..Len(ledger) :
            /\ ledger[m].external_id = outcomes[n].tx.external_id
            /\ ledger[m].type = outcomes[n].tx.type
            /\ RequestDefaults(ledger[m], outcomes[n].tx, csv_config)

\* the ledger holds a created withdrawal to "Cash", a created deposit to the
\* own account and a created transfer
C14_Witness ==
  /\ pc = "done"
  /\ \E m \in 1..Len(ledger) :
       ledger[m].type = "withdrawal" /\ ledger[m].destination_name = Cash
  /\ \E m \in 1..Len(ledger) :
       /\ ledger[m].type = "deposit"
       /\ ledger[m].destination_name = ledger[m].source_name
  /\ \E n \in 1..Len(outcomes) :
       /\ outcomes[n].state = "Created"
       /\ outcomes[n].tx.type = "transfer"
       /\ outcomes[n].tx.destination_name # Cash

\* ------------------------------------------------------------------ C15

\* C15 (classification uses the raw description): every transaction the
\* normalizer yields is a transfer exactly when the value of the configured
\* description column, before the check number is appended, is a key of
\* transfers_out or transfers_in; for a row with a non-empty Check cell the
\* description is that value followed by the check number, and the key of
\* the external id is built with this augmented description.
C15_RawDescriptionClassifies ==
  \A n \in 1..Len(outcomes) :
    /\ outcomes[n].tx.type = "transfer"
       <=> RawDescription(csv_config, csv_file[outcomes[n].i + 1])
             \in TransferKeys(csv_config)
    /\ Strip(csv_file[outcomes[n].i + 1][ColCheck]) # <<>>
       => /\ outcomes[n].tx.description =
               RawDescription(csv_config, csv_file[outcomes[n].i + 1])
               \o Strip(csv_file[outcomes[n].i + 1][ColCheck])
          /\ SubSeq(outcomes[n].tx.external_id, 1,
                    Len(ExternalIdKey(outcomes[n].tx)))
               = ExternalIdKey(outcomes[n].tx)

\* ------------------------------------------------------------------ C16
\* SpecOk runs the imports of the scenario against a ledger that answers
\* every gateway call successfully.

NextOk ==
  \/ (CanStart(MaxRuns)
      /\ \E in \in ScenarioInputs : StartImport(in[1], in[2], MaxRuns))
  \/ RaiseConfigError
  \/ RaiseParseError
  \/ YieldTransaction
  \/ ProcessTransaction("ok", "ok", "ok")
  \/ PrintSummary

SpecOk == Init /\ [][NextOk]_vars

\* no two transactions of the ledger share an external id
NoDuplicateIds(store) ==
  \A m \in 1..Len(store), n \in 1..Len(store) :
    m # n => store[m].external_id # store[n].external_id

\* C16 (no duplicate identities in the ledger): with every gateway response
\* successful, after any sequence of imports no two ledger transactions share
\* an external id; of two rows of one file with the same external id at most
\* one is created, and when the first is created the second is
\* Skipped-Duplicate.
C16_NoDuplicateIdentities ==
  /\ NoDuplicateIds(ledger)
  /\ \A m \in 1..Len(outcomes), n \in 1..Len(outcomes) :
       (m < n /\ outcomes[m].tx.external_id = outcomes[n].tx.external_id
        /\ outcomes[m].state = "Created")
       => outcomes[n].state = "Skipped-Duplicate"

\* two rows of one file had the same external id: one create, one skip, in a
\* ledger that holds another transaction as well
C16_Witness ==
  /\ pc = "done"
  /\ Len(outcomes) = 2
  /\ outcomes[1].tx.external_id = outcomes[2].tx.external_id
  /\ outcomes[1].state = "Created"
  /\ outcomes[2].state = "Skipped-Duplicate"
  /\ Len(ledger) = 2

\* ------------------------------------------------------------------ C17

\* the disambiguator of a yielded transaction: None when absent or empty
DisambiguatorOf(config, row, i) ==
  IF Truthy(AdditionalUidValue(config, StripRow(row), i))
  THEN AdditionalUidValue(config, StripRow(row), i)
  ELSE None

\* the (date, amount, account, description, disambiguator) tuple of a
\* yielded transaction
IdentityTuple(out, config, file) ==
  <<out.tx.date, out.tx.amount, out.tx.account, out.tx.description,
    DisambiguatorOf(config, file[out.i + 1], out.i)>>

\* C17 (identity key is injective): any two transactions the normalizer
\* yields whose (date, amount, account, description, disambiguator) tuples
\* differ in at least one component have different external ids.
C17_IdentityKeyInjective ==
  \A m \in 1..Len(outcomes), n \in 1..Len(outcomes) :
    IdentityTuple(outcomes[m], csv_config, csv_file)
      # IdentityTuple(outcomes[n], csv_config, csv_file)
    => outcomes[m].tx.external_id # outcomes[n].tx.external_id

\* ------------------------------------------------------------------ C18

\* the create requests of this import that the ledger accepted
AcceptedCreates(made) ==
  {n \in CreateCalls(made) : made[n].response = "ok"}

\* C18 (created counter tracks accepted creates): when import_from_csv has
\* returned or has been ended by an exception, transactions_created has
\* grown by the number of create requests the ledger accepted during the
\* import, which is the number of transactions the ledger gained.
C18_CreatedCounterTracksAccepted ==
  pc \in {"done", "error"}
  => /\ transactions_created - start.created
          = Cardinality(AcceptedCreates(calls))
     /\ transactions_created - start.created = Len(ledger) - Len(start.ledger)

====
